---- MODULE Spec2Model ----
(***************************************************************************)
(* Incremental indexing pipeline of ai-index (lib/indexer: processFiles,   *)
(* chunkFile, the hash store) over the local vector store                  *)
(* (lib/local-vector-store.js).                                            *)
(*                                                                         *)
(* A text is the list of its lines, content.split('\n'), kept as runs of   *)
(* equal lines: <<[count, len], ...>> is count lines of len characters     *)
(* each, none of them with white space at either end, and a tag that names *)
(* the characters.                                                         *)
(***************************************************************************)
EXTENDS Integers, Sequences, FiniteSets, TLC

\* ------------------------------------------------------------------ bounds

\* Runs started and edits of the tree in one behaviour.
MaxOps == 4
\* Runs killed and calls failed in one behaviour.
MaxFaults == 2

\* ------------------------------------------------------------------ inputs

HashFile == "ai_index/file_hashes.json"
ManifestFile == "ai_index/manifest.json"
UserFiles == {"a.js", "b.md"}

\* The paths under REPO_ROOT that match the glob patterns of processFiles, in the
\* order globby lists them.  ai_index/search/chunkmap.jsonl matches none.
FileOrder == <<"a.js", HashFile, ManifestFile, "b.md">>
Files == {FileOrder[k] : k \in 1..Len(FileOrder)}

Absent == [kind |-> "absent", lines |-> <<>>, tag |-> [src |-> "none"]]
\* A file that globby lists and fs.readFile throws on.
Unreadable == [kind |-> "unreadable", lines |-> <<>>, tag |-> [src |-> "none"]]
Text(lines, tag) == [kind |-> "text", lines |-> lines, tag |-> tag]
Run(count, len) == [count |-> count, len |-> len]

\* What the user writes: 40 lines (two 30-line windows) and 10 lines (one window)
\* of 10 characters.
Contents == {Text(<<Run(40, 10)>>, [src |-> "user", v |-> 1]),
             Text(<<Run(10, 10)>>, [src |-> "user", v |-> 2])}
TreeValues == Contents \cup {Absent, Unreadable}

\* ------------------------------------------------------------------ pure functions

Min(a, b) == IF a < b THEN a ELSE b
Max(a, b) == IF a > b THEN a ELSE b

RECURSIVE NumLines(_)
NumLines(lines) ==
  IF lines = <<>> THEN 0 ELSE Head(lines).count + NumLines(Tail(lines))

\* lines.slice(from, to)
RECURSIVE SliceLines(_, _, _)
SliceLines(lines, from, to) ==
  IF lines = <<>> \/ to <= 0 THEN <<>>
  ELSE LET c == Head(lines).count
           take == Min(c, to) - Max(from, 0)
       IN (IF take > 0 THEN <<Run(take, Head(lines).len)>> ELSE <<>>)
          \o SliceLines(Tail(lines), from - c, to - c)

RECURSIVE DropBlank(_)
DropBlank(lines) ==
  IF lines # <<>> /\ Head(lines).len = 0 THEN DropBlank(Tail(lines)) ELSE lines

RECURSIVE Reverse(_)
Reverse(s) == IF s = <<>> THEN <<>> ELSE Append(Reverse(Tail(s)), Head(s))

RECURSIVE JoinedLength(_)
JoinedLength(lines) ==
  IF lines = <<>> THEN 0
  ELSE Head(lines).count * Head(lines).len + JoinedLength(Tail(lines))

\* lines.join('\n').trim().length
TrimmedLength(lines) ==
  LET kept == DropBlank(Reverse(DropBlank(Reverse(lines))))
  IN IF kept = <<>> THEN 0 ELSE JoinedLength(kept) + (NumLines(kept) - 1)

\* Files of an indexed target that queries find chunks of.
ApiFile == "src/app/api/auth.js"
UiFile == "src/app/pages/ui.js"
GuideFile == "notes/docs/guide.md"

\* path.extname(filePath).toLowerCase() for the model's files.
extname(filePath) ==
  CASE filePath \in {"a.js", ApiFile, UiFile} -> ".js"
    [] filePath \in {"b.md", GuideFile} -> ".md"
    [] filePath \in {HashFile, ManifestFile} -> ".json"
    [] OTHER -> ""

\* filePath.length
PathLength(filePath) ==
  CASE filePath \in UserFiles -> 4
    [] filePath = HashFile -> 25
    [] filePath = ManifestFile -> 22

getLanguage(filePath) ==
  LET ext == extname(filePath) IN
  CASE ext \in {".js", ".mjs", ".jsx"} -> "javascript"
    [] ext \in {".ts", ".tsx"} -> "typescript"
    [] ext = ".py" -> "python"
    [] ext = ".go" -> "go"
    [] ext = ".tf" -> "terraform"
    [] ext \in {".yml", ".yaml"} -> "yaml"
    [] ext = ".json" -> "json"
    [] ext = ".md" -> "markdown"
    [] ext = ".scss" -> "scss"
    [] ext = ".css" -> "css"
    [] ext = ".sql" -> "sql"
    [] ext = ".sh" -> "bash"
    [] OTHER -> "unknown"

\* filePath.includes(sub), for the substrings getFileArea looks for: the paths
\* of the model that contain one.
PathIncludes(filePath, sub) ==
  <<filePath, sub>> \in {<<ApiFile, "/app/api/">>, <<UiFile, "/app/pages/">>,
                         <<GuideFile, "/docs/">>}

getFileArea(filePath) ==
  IF \E s \in {"/app/api/", "/app/models/", "/app/helpers/", "/app/jobs/",
               "/app/worker", "/app/server"} : PathIncludes(filePath, s)
  THEN "backend"
  ELSE IF \E s \in {"/app/components/", "/app/pages/", "/app/data/",
                    "/app/public/"} : PathIncludes(filePath, s)
  THEN "frontend"
  ELSE IF \E s \in {"/terraform/", "/k8s/", "/docker", "Dockerfile"} :
            PathIncludes(filePath, s)
  THEN "infra"
  ELSE IF \E s \in {"/docs/", "README", "DOCUMENTATION"} :
            PathIncludes(filePath, s)
  THEN "docs"
  ELSE "other"

DocWindow == 50
CodeWindow == 30
overlap == 5
MinChunkChars == 50

maxLinesPerChunk(filePath) ==
  IF getLanguage(filePath) = "markdown" \/ getFileArea(filePath) = "docs"
  THEN DocWindow ELSE CodeWindow

\* md5(`${filePath}:${i}`)
ChunkId(filePath, i) == <<filePath, i>>

\* (the chunk id made from the chunk's text as well)
RECURSIVE ChunksFromContentId(_, _, _)
ChunksFromContentId(filePath, content, i) ==
  LET max == maxLinesPerChunk(filePath)
      n == NumLines(content.lines)
      chunkContent == Text(SliceLines(content.lines, i, i + max), content.tag)
      chunk == [id |-> <<filePath, i, chunkContent>>,
                repo_path |-> filePath,
                content |-> chunkContent,
                language |-> getLanguage(filePath),
                area |-> getFileArea(filePath),
                parent_id |-> filePath,
                start_line |-> i,
                end_line |-> Min(i + max, n)]
  IN IF i >= n THEN <<>>
     ELSE (IF TrimmedLength(chunkContent.lines) > MinChunkChars
           THEN <<chunk>> ELSE <<>>)
          \o ChunksFromContentId(filePath, content, i + (max - overlap))

\* (the window moved on by the window size plus the overlap)
RECURSIVE ChunksFromGapped(_, _, _)
ChunksFromGapped(filePath, content, i) ==
  LET max == maxLinesPerChunk(filePath)
      n == NumLines(content.lines)
      chunkContent == Text(SliceLines(content.lines, i, i + max), content.tag)
      chunk == [id |-> ChunkId(filePath, i),
                repo_path |-> filePath,
                content |-> chunkContent,
                language |-> getLanguage(filePath),
                area |-> getFileArea(filePath),
                parent_id |-> filePath,
                start_line |-> i,
                end_line |-> Min(i + max, n)]
  IN IF i >= n THEN <<>>
     ELSE (IF TrimmedLength(chunkContent.lines) > MinChunkChars
           THEN <<chunk>> ELSE <<>>)
          \o ChunksFromGapped(filePath, content, i + (max + overlap))

RECURSIVE ChunksFrom(_, _, _)
ChunksFrom(filePath, content, i) ==
  LET max == maxLinesPerChunk(filePath)
      n == NumLines(content.lines)
      chunkContent == Text(SliceLines(content.lines, i, i + max), content.tag)
      chunk == [id |-> ChunkId(filePath, i),
                repo_path |-> filePath,
                content |-> chunkContent,
                language |-> getLanguage(filePath),
                area |-> getFileArea(filePath),
                parent_id |-> filePath,
                start_line |-> i,
                end_line |-> Min(i + max, n)]
  IN IF i >= n THEN <<>>
     ELSE (IF TrimmedLength(chunkContent.lines) > MinChunkChars
           THEN <<chunk>> ELSE <<>>)
          \o ChunksFrom(filePath, content, i + (max - overlap))

chunkFile(filePath, content) == ChunksFrom(filePath, content, 0)

\* sha256 of the content: distinct texts have distinct digests.
calculateFileHash(content) == [sha256 |-> content]
DigestChars == 64

\* embedder.embed(text): a fixed function of the text.
embed(text) == [dim |-> 384, of |-> text]

\* JSON.stringify(hashes, null, 2): "{}" for no key, else "{", one line
\*   "<path>": "<digest>"[,]   per key, and "}".
RECURSIVE EntryLines(_, _)
EntryLines(paths, last) ==
  IF paths = <<>> THEN <<>>
  ELSE <<Run(1, 2 + (PathLength(Head(paths)) + 2) + 2 + (DigestChars + 2)
                + (IF Head(paths) = last THEN 0 ELSE 1))>>
       \o EntryLines(Tail(paths), last)

HashesText(hashes) ==
  LET keys == SelectSeq(FileOrder, LAMBDA f : f \in DOMAIN hashes)
  IN Text(IF keys = <<>> THEN <<Run(1, 2)>>
          ELSE <<Run(1, 1)>> \o EntryLines(keys, keys[Len(keys)]) \o <<Run(1, 1)>>,
          [src |-> "hashes", json |-> hashes])

\* JSON.stringify(manifest, null, 2): "{", one line per field, "}".  The line
\*   "mode": "local",   has 18 characters, the line of last_built_at with its
\* 24-character time has 46; the other lines are taken at the 13 characters of
\*   "dim": 384,   the shortest they can be.
ManifestFields == 11
ManifestText(manifest) ==
  Text(<<Run(1, 1), Run(1, 18), Run(1, 46), Run(ManifestFields - 2, 13), Run(1, 1)>>,
       [src |-> "manifest", json |-> manifest])

\* ------------------------------------------------------------------ state

VARIABLES
  tree,              \* the user's files under REPO_ROOT: text, Absent or Unreadable
  fileHashes,        \* ai_index/file_hashes.json: <<>> or <<path -> digest>>
  chunkMapFile,      \* ai_index/search/chunkmap.jsonl: <<>> or <<entries>>
  manifestFile,      \* ai_index/manifest.json: <<>> or <<manifest>>
  store,             \* the items of the vectra index
  pc,                \* where processFiles stands
  FORCE_REINDEX,
  files, previousHashes, currentHashes, filesToProcess,
  i,                 \* index into filesToProcess (1-based)
  chunks,            \* chunks of filesToProcess[i] not yet embedded
  chunkMap, pendingDocuments, totalChunks,
  d,                 \* index into deletedFiles (1-based)
  \* history of the current run
  chunked,           \* files chunkFile was called for
  embedded,          \* files embed was called for
  written,           \* documents addDocuments has written
  swept,             \* files the deleted-file sweep called removeDocumentsByFile for
  startStore, startFiles,  \* the store and the three artifacts when the run started
  stoppedAt,         \* where a killed or failed run stood
  \* history across runs
  lastDoneTree,      \* <<tree>> of the latest run completed before the current one,
                     \* <<>> if there is none or a run was killed or failed since
  prevOutcome,       \* how the run before the current one ended, "idle" if the tree
                     \* was edited since
  prevTouched,       \* the files the run before the current one had begun to
                     \* process when it was killed before its final flush was over
  ops,               \* runs started and edits made so far
  fails,             \* the number of embed and addDocuments calls failed so far
  kills,             \* the number of runs killed so far
  \* the data directory shared by the index runs of several roots
  dataPath,          \* ~/.ai-index/data: index name -> <<>> or <<items of the index>>
  rootHashes,        \* per root, REPO_ROOT/ai_index/file_hashes.json: <<>> or <<map>>
  mine,              \* per root, the items its own runs wrote and did not remove
  garbled,           \* the roots whose ai_index/file_hashes.json is no longer JSON
  rootMeta,          \* per root, <<>> or <<the chunk map and the manifest written>>
  lastCmd,           \* the latest index command: its root, its exit status and the
                     \* data directory and the artifacts as they were before it
  \* one query
  qArgs,             \* the command line: script, query, k, area, minScore, and the
                     \* state of the embedding service
  qIndex,            \* the vector index of the target: <<>> or <<list of items>>
  qChunkMap,         \* the entries of ai_index/search/chunkmap.jsonl
  qMapGarbled,       \* the chunk map exists and one of its lines is no longer JSON
  qpc,               \* where the query stands
  hits,              \* what searchHybrid returned
  results,           \* the files reported
  outcome,           \* how the query ended
  \* calls of chunkFile
  cfCalls,           \* the calls made: the path, the content and the chunks returned
  \* two runs of processFiles on one target
  pTree,             \* the user's files, the same for both runs
  pShared,           \* what the runs share: the vectra index and the three files
  pFirst,            \* pShared before the first of the two runs started
  pRun,              \* the local variables of each run of processFiles
  pClock,            \* the time, for last_built_at
  pOverlap           \* a run started while the other was running

persistVars == <<tree, fileHashes, chunkMapFile, manifestFile, store>>
runVars == <<pc, FORCE_REINDEX, files, previousHashes, currentHashes, filesToProcess,
             i, chunks, chunkMap, pendingDocuments, totalChunks, d>>
histVars == <<chunked, embedded, written, swept, startStore, startFiles, stoppedAt,
              lastDoneTree, prevOutcome, prevTouched, ops, fails, kills>>
vars == <<persistVars, runVars, histVars>>
keyVars == <<dataPath, rootHashes, mine, garbled, rootMeta, lastCmd>>
queryVars == <<qArgs, qIndex, qChunkMap, qMapGarbled, qpc, hits, results, outcome>>
chunkVars == <<cfCalls>>
pairVars == <<pTree, pShared, pFirst, pRun, pClock, pOverlap>>
sideVars == <<keyVars, queryVars, chunkVars, pairVars>>

NoHashes == [f \in {} |-> calculateFileHash(Absent)]

\* The files under REPO_ROOT: the user's and the two artifacts that match the
\* glob patterns.
Disk ==
  [f \in Files |->
     CASE f \in UserFiles -> tree[f]
       [] f = HashFile ->
            IF fileHashes = <<>> THEN Absent ELSE HashesText(fileHashes[1])
       [] f = ManifestFile ->
            IF manifestFile = <<>> THEN Absent ELSE ManifestText(manifestFile[1])]

\* loadFileHashes: {} when the file does not exist
loadFileHashes == IF fileHashes = <<>> THEN NoHashes ELSE fileHashes[1]

Artifacts == <<fileHashes, chunkMapFile, manifestFile>>

Resting == {"idle", "done", "killed", "failed"}
Running == {"file", "chunk", "flush", "sweep", "saveHashes", "saveChunkMap", "saveManifest"}
\* positions before the first write of an artifact
BeforePersist == {"file", "chunk", "flush", "sweep", "saveHashes"}

IndexerInit ==
  /\ tree = [f \in UserFiles |-> Absent]
  /\ fileHashes = <<>>
  /\ chunkMapFile = <<>>
  /\ manifestFile = <<>>
  /\ store = {}
  /\ pc = "idle"
  /\ FORCE_REINDEX = FALSE
  /\ files = <<>>
  /\ previousHashes = NoHashes
  /\ currentHashes = NoHashes
  /\ filesToProcess = <<>>
  /\ i = 1
  /\ chunks = <<>>
  /\ chunkMap = <<>>
  /\ pendingDocuments = <<>>
  /\ totalChunks = 0
  /\ d = 1
  /\ chunked = {}
  /\ embedded = {}
  /\ written = {}
  /\ swept = {}
  /\ startStore = {}
  /\ startFiles = <<<<>>, <<>>, <<>>>>
  /\ lastDoneTree = <<>>
  /\ stoppedAt = ""
  /\ prevOutcome = "idle"
  /\ prevTouched = {}
  /\ fails = 0
  /\ kills = 0
  /\ ops = 0

\* ------------------------------------------------------------------ vector store

\* addDocuments: one item per document, upserted by id.
Item(doc) ==
  [id |-> doc.id,
   vector |-> doc.embedding,
   content |-> doc.content,
   repo_path |-> doc.repo_path,
   area |-> doc.area,
   language |-> doc.language,
   start_line |-> doc.start_line,
   end_line |-> doc.end_line]

SeqRange(s) == {s[k] : k \in 1..Len(s)}

addDocuments(st, documents) ==
  LET items == {Item(doc) : doc \in SeqRange(documents)}
      ids == {it.id : it \in items}
  IN {it \in st : it.id \notin ids} \cup items

removeDocumentsByFile(st, filePath) == {it \in st : it.repo_path # filePath}

ItemsOf(st, filePath) == {it \in st : it.repo_path = filePath}

\* indexDocuments: nothing to do for an empty list
indexDocuments(st, documents) ==
  IF Len(documents) = 0 THEN st ELSE addDocuments(st, documents)

\* ------------------------------------------------------------------ processFiles

Present(t) == {f \in Files : t[f] # Absent}
Readable(t) == {f \in Files : t[f].kind = "text"}

\* globby(patterns, {cwd: REPO_ROOT}): the files present, readable or not
Glob(t) == SelectSeq(FileOrder, LAMBDA f : f \in Present(t))

\* The hashing loop: currentHashes gets every file that could be read.
HashAll(t) == [f \in Readable(t) |-> calculateFileHash(t[f])]

\* (the comparison of the hashes left out)
NeedsProcessingAlways(force, prev, file, currentHash) == TRUE

\* FORCE_REINDEX || previousHashes[file] !== currentHash
NeedsProcessing(force, prev, file, currentHash) ==
  force \/ file \notin DOMAIN prev \/ prev[file] # currentHash

Classify(t, force, prev) ==
  LET toProcess == SelectSeq(Glob(t), LAMBDA f :
                     /\ f \in Readable(t)
                     /\ NeedsProcessing(force, prev, f, calculateFileHash(t[f])))
  IN [k \in 1..Len(toProcess) |-> [file |-> toProcess[k], content |-> t[toProcess[k]]]]

\* (no file is taken as deleted)
deletedFilesNone == <<>>

\* Object.keys(previousHashes).filter(file => !currentHashes[file])
deletedFiles == SelectSeq(FileOrder, LAMBDA f :
                  f \in DOMAIN previousHashes /\ f \notin DOMAIN currentHashes)

\* Files of the run in progress whose processing has begun.
Touched ==
  {filesToProcess[k].file : k \in {k \in 1..Len(filesToProcess) :
      k < i \/ (k = i /\ pc = "chunk")}}

\* lastDoneTree when the next run starts or the tree is edited
LastDone ==
  CASE pc = "done" -> <<tree>>
    [] pc \in {"killed", "failed"} -> <<>>
    [] OTHER -> lastDoneTree

\* (no early return: a run with nothing to process goes on to the final flush)
StartRunAlwaysPersists(force) ==
  /\ pc \in Resting
  /\ ops < MaxOps
  /\ ops' = ops + 1
  /\ FORCE_REINDEX' = force
  /\ files' = Glob(Disk)
  /\ previousHashes' = loadFileHashes
  /\ currentHashes' = HashAll(Disk)
  /\ filesToProcess' = Classify(Disk, force, loadFileHashes)
  /\ pc' = IF Len(filesToProcess') = 0 THEN "flush" ELSE "file"
  /\ i' = 1
  /\ chunks' = <<>>
  /\ chunkMap' = <<>>
  /\ pendingDocuments' = <<>>
  /\ totalChunks' = 0
  /\ d' = 1
  /\ chunked' = {}
  /\ embedded' = {}
  /\ written' = {}
  /\ swept' = {}
  /\ startStore' = store
  /\ startFiles' = Artifacts
  /\ stoppedAt' = ""
  /\ lastDoneTree' = LastDone
  /\ prevOutcome' = pc
  /\ prevTouched' = IF pc = "killed" THEN prevTouched ELSE {}
  /\ UNCHANGED <<persistVars, fails, kills>>
  /\ UNCHANGED sideVars

\* The hash store and the file list are loaded, the files hashed and classified;
\* with nothing to process and no --force, processFiles returns at once.
StartRun(force) ==
  /\ pc \in Resting
  /\ ops < MaxOps
  /\ ops' = ops + 1
  /\ FORCE_REINDEX' = force
  /\ files' = Glob(Disk)
  /\ previousHashes' = loadFileHashes
  /\ currentHashes' = HashAll(Disk)
  /\ filesToProcess' = Classify(Disk, force, loadFileHashes)
  /\ pc' = IF Len(filesToProcess') = 0 /\ ~force THEN "done"
           ELSE IF Len(filesToProcess') = 0 THEN "flush" ELSE "file"
  /\ i' = 1
  /\ chunks' = <<>>
  /\ chunkMap' = <<>>
  /\ pendingDocuments' = <<>>
  /\ totalChunks' = 0
  /\ d' = 1
  /\ chunked' = {}
  /\ embedded' = {}
  /\ written' = {}
  /\ swept' = {}
  /\ startStore' = store
  /\ startFiles' = Artifacts
  /\ stoppedAt' = ""
  /\ lastDoneTree' = LastDone
  /\ prevOutcome' = pc
  /\ prevTouched' = IF pc = "killed" THEN prevTouched ELSE {}
  /\ UNCHANGED <<persistVars, fails, kills>>
  /\ UNCHANGED sideVars

\* The memory of a process that ended is gone.
MemoryLost ==
  /\ FORCE_REINDEX' = FALSE
  /\ files' = <<>>
  /\ previousHashes' = NoHashes
  /\ currentHashes' = NoHashes
  /\ filesToProcess' = <<>>
  /\ i' = 1
  /\ chunks' = <<>>
  /\ chunkMap' = <<>>
  /\ pendingDocuments' = <<>>
  /\ totalChunks' = 0
  /\ d' = 1
  /\ chunked' = {}
  /\ embedded' = {}
  /\ written' = {}
  /\ swept' = {}

\* The end of one iteration of the loop over filesToProcess.
NextFilePc(k) == IF k > Len(filesToProcess) THEN "flush" ELSE "file"

\* Top of the loop body: remove the file's old items if it has a previous hash,
\* then chunk it.
BeginFile ==
  /\ pc = "file"
  /\ LET file == filesToProcess[i].file
         cs == chunkFile(file, filesToProcess[i].content)
     IN /\ store' = IF file \in DOMAIN previousHashes
                    THEN removeDocumentsByFile(store, file) ELSE store
        /\ chunked' = chunked \cup {file}
        /\ chunks' = cs
        /\ IF Len(cs) = 0
           THEN /\ i' = i + 1
                /\ pc' = NextFilePc(i + 1)
           ELSE /\ i' = i
                /\ pc' = "chunk"
  /\ UNCHANGED <<tree, fileHashes, chunkMapFile, manifestFile,
                 FORCE_REINDEX, files, previousHashes, currentHashes, filesToProcess,
                 chunkMap, pendingDocuments, totalChunks, d,
                 embedded, written, swept, startStore, startFiles,
                 stoppedAt, lastDoneTree, prevOutcome, prevTouched, fails, kills, ops>>
  /\ UNCHANGED sideVars

MAX_BULK_SIZE == 50

ChunkMapEntry(chunk) ==
  [chunk_id |-> chunk.id, file |-> chunk.repo_path, start |-> chunk.start_line,
   end |-> chunk.end_line, parent_id |-> chunk.parent_id, area |-> chunk.area]

\* sha: git rev-parse HEAD of the tree
Document(chunk, embedding) ==
  [id |-> chunk.id, repo_path |-> chunk.repo_path, content |-> chunk.content,
   language |-> chunk.language, area |-> chunk.area, parent_id |-> chunk.parent_id,
   start_line |-> chunk.start_line, end_line |-> chunk.end_line,
   sha |-> "HEAD", embedding |-> embedding]

\* One iteration of the loop over the file's chunks: embed, stage, record in the
\* chunk map, flush a full batch.
EmbedChunk ==
  /\ pc = "chunk"
  /\ LET chunk == Head(chunks)
         pending == Append(pendingDocuments, Document(chunk, embed(chunk.content)))
         full == Len(pending) >= MAX_BULK_SIZE
     IN /\ embedded' = embedded \cup {chunk.repo_path}
        /\ chunkMap' = Append(chunkMap, ChunkMapEntry(chunk))
        /\ store' = IF full THEN indexDocuments(store, pending) ELSE store
        /\ written' = IF full THEN written \cup {Item(doc) : doc \in SeqRange(pending)}
                      ELSE written
        /\ totalChunks' = IF full THEN totalChunks + Len(pending) ELSE totalChunks
        /\ pendingDocuments' = IF full THEN <<>> ELSE pending
  /\ chunks' = Tail(chunks)
  /\ IF Len(chunks) = 1
     THEN /\ i' = i + 1
          /\ pc' = NextFilePc(i + 1)
     ELSE /\ i' = i
          /\ pc' = "chunk"
  /\ UNCHANGED <<tree, fileHashes, chunkMapFile, manifestFile,
                 FORCE_REINDEX, files, previousHashes, currentHashes, filesToProcess, d,
                 chunked, swept, startStore, startFiles,
                 stoppedAt, lastDoneTree, prevOutcome, prevTouched, fails, kills, ops>>
  /\ UNCHANGED sideVars

\* (embed throws and nothing catches it: processFiles rejects)
EmbedFailsAborts ==
  /\ pc = "chunk"
  /\ kills + fails < MaxFaults
  /\ pc' = "failed"
  /\ stoppedAt' = pc
  /\ fails' = fails + 1
  /\ MemoryLost
  /\ UNCHANGED <<persistVars, startStore, startFiles,
                 lastDoneTree, prevOutcome, prevTouched, kills, ops>>
  /\ UNCHANGED sideVars

\* embed throws: the catch of the file loop logs it and the loop goes on with
\* the next file.
EmbedFails ==
  /\ pc = "chunk"
  /\ kills + fails < MaxFaults
  /\ embedded' = embedded \cup {Head(chunks).repo_path}
  /\ chunks' = <<>>
  /\ i' = i + 1
  /\ pc' = NextFilePc(i + 1)
  /\ fails' = fails + 1
  /\ UNCHANGED <<persistVars, FORCE_REINDEX, files, previousHashes, currentHashes,
                 filesToProcess, chunkMap, pendingDocuments, totalChunks, d,
                 chunked, written, swept, startStore, startFiles,
                 stoppedAt, lastDoneTree, prevOutcome, prevTouched, kills, ops>>
  /\ UNCHANGED sideVars

\* A full batch is flushed inside the loop over the file's chunks and
\* addDocuments throws: the document and its chunk-map entry have been pushed,
\* pendingDocuments is not reset, and the catch of the file loop logs the error
\* and goes on with the next file.
BulkFlushFails ==
  /\ pc = "chunk"
  /\ Len(pendingDocuments) + 1 >= MAX_BULK_SIZE
  /\ kills + fails < MaxFaults
  /\ LET chunk == Head(chunks)
     IN /\ embedded' = embedded \cup {chunk.repo_path}
        /\ pendingDocuments' =
             Append(pendingDocuments, Document(chunk, embed(chunk.content)))
        /\ chunkMap' = Append(chunkMap, ChunkMapEntry(chunk))
  /\ chunks' = <<>>
  /\ i' = i + 1
  /\ pc' = NextFilePc(i + 1)
  /\ fails' = fails + 1
  /\ UNCHANGED <<persistVars, FORCE_REINDEX, files, previousHashes, currentHashes,
                 filesToProcess, totalChunks, d,
                 chunked, written, swept, startStore, startFiles,
                 stoppedAt, lastDoneTree, prevOutcome, prevTouched, kills, ops>>
  /\ UNCHANGED sideVars

AfterFlushPc == IF Len(deletedFiles) = 0 THEN "saveHashes" ELSE "sweep"

\* (the hash store saved together with the final flush, before the sweep)
FinalFlushSavesHashes ==
  /\ pc = "flush"
  /\ store' = indexDocuments(store, pendingDocuments)
  /\ written' = written \cup {Item(doc) : doc \in SeqRange(pendingDocuments)}
  /\ totalChunks' = totalChunks + Len(pendingDocuments)
  /\ fileHashes' = <<currentHashes>>
  /\ pc' = AfterFlushPc
  /\ UNCHANGED <<tree, chunkMapFile, manifestFile,
                 FORCE_REINDEX, files, previousHashes, currentHashes, filesToProcess,
                 i, chunks, chunkMap, pendingDocuments, d,
                 chunked, embedded, swept, startStore, startFiles,
                 stoppedAt, lastDoneTree, prevOutcome, prevTouched, fails,
                 kills, ops>>
  /\ UNCHANGED sideVars

\* (the final flush left out: the staged documents are not written)
FinalFlushSkipped ==
  /\ pc = "flush"
  /\ store' = store
  /\ written' = written
  /\ totalChunks' = totalChunks
  /\ pc' = AfterFlushPc
  /\ UNCHANGED <<tree, fileHashes, chunkMapFile, manifestFile,
                 FORCE_REINDEX, files, previousHashes, currentHashes, filesToProcess,
                 i, chunks, chunkMap, pendingDocuments, d,
                 chunked, embedded, swept, startStore, startFiles,
                 stoppedAt, lastDoneTree, prevOutcome, prevTouched, fails, kills, ops>>
  /\ UNCHANGED sideVars

\* if (pendingDocuments.length > 0) indexDocuments(pendingDocuments)
FinalFlush ==
  /\ pc = "flush"
  /\ store' = indexDocuments(store, pendingDocuments)
  /\ written' = written \cup {Item(doc) : doc \in SeqRange(pendingDocuments)}
  /\ totalChunks' = totalChunks + Len(pendingDocuments)
  /\ pc' = AfterFlushPc
  /\ UNCHANGED <<tree, fileHashes, chunkMapFile, manifestFile,
                 FORCE_REINDEX, files, previousHashes, currentHashes, filesToProcess,
                 i, chunks, chunkMap, pendingDocuments, d,
                 chunked, embedded, swept, startStore, startFiles,
                 stoppedAt, lastDoneTree, prevOutcome, prevTouched, fails, kills, ops>>
  /\ UNCHANGED sideVars

\* The final addDocuments throws: processFiles rejects and main exits with 1.
FinalFlushFails ==
  /\ pc = "flush"
  /\ Len(pendingDocuments) > 0
  /\ kills + fails < MaxFaults
  /\ pc' = "failed"
  /\ stoppedAt' = pc
  /\ fails' = fails + 1
  /\ MemoryLost
  /\ UNCHANGED <<persistVars, startStore, startFiles,
                 lastDoneTree, prevOutcome, prevTouched, kills, ops>>
  /\ UNCHANGED sideVars

\* One iteration of the loop over deletedFiles.
SweepDeleted ==
  /\ pc = "sweep"
  /\ store' = removeDocumentsByFile(store, deletedFiles[d])
  /\ swept' = swept \cup {deletedFiles[d]}
  /\ d' = d + 1
  /\ pc' = IF d + 1 > Len(deletedFiles) THEN "saveHashes" ELSE "sweep"
  /\ UNCHANGED <<tree, fileHashes, chunkMapFile, manifestFile,
                 FORCE_REINDEX, files, previousHashes, currentHashes, filesToProcess,
                 i, chunks, chunkMap, pendingDocuments, totalChunks,
                 chunked, embedded, written, startStore, startFiles,
                 stoppedAt, lastDoneTree, prevOutcome, prevTouched, fails, kills, ops>>
  /\ UNCHANGED sideVars

\* saveFileHashes(currentHashes)
saveFileHashes ==
  /\ pc = "saveHashes"
  /\ fileHashes' = <<currentHashes>>
  /\ pc' = "saveChunkMap"
  /\ UNCHANGED <<tree, chunkMapFile, manifestFile, store,
                 FORCE_REINDEX, files, previousHashes, currentHashes, filesToProcess,
                 i, chunks, chunkMap, pendingDocuments, totalChunks, d, histVars>>
  /\ UNCHANGED sideVars

WriteChunkMap ==
  /\ pc = "saveChunkMap"
  /\ chunkMapFile' = <<chunkMap>>
  /\ pc' = "saveManifest"
  /\ UNCHANGED <<tree, fileHashes, manifestFile, store,
                 FORCE_REINDEX, files, previousHashes, currentHashes, filesToProcess,
                 i, chunks, chunkMap, pendingDocuments, totalChunks, d, histVars>>
  /\ UNCHANGED sideVars

\* last_built_at: the clock is the count of runs and edits
Manifest ==
  [last_built_at |-> ops,
   total_chunks |-> totalChunks,
   total_files |-> Len(files),
   processed_files |-> Len(filesToProcess),
   skipped_files |-> Len(files) - Len(filesToProcess)]

WriteManifest ==
  /\ pc = "saveManifest"
  /\ manifestFile' = <<Manifest>>
  /\ pc' = "done"
  /\ UNCHANGED <<tree, fileHashes, chunkMapFile, store,
                 FORCE_REINDEX, files, previousHashes, currentHashes, filesToProcess,
                 i, chunks, chunkMap, pendingDocuments, totalChunks, d, histVars>>
  /\ UNCHANGED sideVars

\* The process is killed between two steps of a run.
Kill ==
  /\ pc \in Running
  /\ kills + fails < MaxFaults
  /\ pc' = "killed"
  /\ stoppedAt' = pc
  /\ kills' = kills + 1
  /\ prevTouched' = IF pc \in {"file", "chunk", "flush"} THEN Touched ELSE {}
  /\ MemoryLost
  /\ UNCHANGED <<persistVars, startStore, startFiles,
                 lastDoneTree, prevOutcome, fails, ops>>
  /\ UNCHANGED sideVars

\* ------------------------------------------------------------------ environment

\* Between two runs a file is created, rewritten, made unreadable or deleted.
EditFile(f, c) ==
  /\ pc \in Resting
  /\ ops < MaxOps
  /\ tree[f] # c
  /\ tree' = [tree EXCEPT ![f] = c]
  /\ ops' = ops + 1
  /\ lastDoneTree' = LastDone
  /\ pc' = "idle"
  /\ MemoryLost
  /\ startStore' = {}
  /\ startFiles' = <<<<>>, <<>>, <<>>>>
  /\ stoppedAt' = ""
  /\ prevOutcome' = "idle"
  /\ prevTouched' = {}
  /\ UNCHANGED <<fileHashes, chunkMapFile, manifestFile, store, fails, kills>>
  /\ UNCHANGED sideVars

\* ------------------------------------------------------------------ chunkFile

\* Calls of chunkFile in one behaviour.
MaxCalls == 2

\* Line counts around the two window sizes and the two steps, and line lengths
\* below and above the minimum chunk length.
LineCounts == {1, 5, 26, 29, 30, 31, 46, 49, 50, 56}
LineLengths == {0, 10, 60}

\* Texts chunkFile is called with: equal lines, the same followed by the empty
\* line that a final line break leaves after split, and long lines followed by
\* a tail of short ones.
ChunkContents ==
  {Text(<<Run(n, len)>>, [src |-> "user", v |-> 1]) : n \in LineCounts, len \in LineLengths}
  \cup {Text(<<Run(n, 60), Run(1, 0)>>, [src |-> "user", v |-> 2]) : n \in {4, 29}}
  \cup {Text(<<Run(25, 60), Run(7, 5)>>, [src |-> "user", v |-> 3])}

ChunkPaths == {"a.js", "b.md", GuideFile}

\* No call of chunkFile has been made.
ChunkIdle == cfCalls = <<>>

Runs == {1, 2}

\* A target nothing was indexed on: an empty index and none of the three files.
NoShared == [store |-> {}, fileHashes |-> <<>>, chunkMapFile |-> <<>>, manifestFile |-> <<>>]

\* A process that has not called processFiles yet.
IdleRun ==
  [pc |-> "idle", FORCE_REINDEX |-> FALSE, files |-> <<>>,
   previousHashes |-> NoHashes, currentHashes |-> NoHashes, filesToProcess |-> <<>>,
   i |-> 1, chunkMap |-> <<>>, pendingDocuments |-> <<>>, totalChunks |-> 0, d |-> 1]

PairIdle ==
  /\ pTree = [f \in UserFiles |-> Absent]
  /\ pShared = NoShared
  /\ pFirst = NoShared
  /\ pRun = [p \in Runs |-> IdleRun]
  /\ pClock = 0
  /\ pOverlap = FALSE

\* chunkFile(filePath, content) is called and returns.
CallChunkFile(filePath, content) ==
  /\ Len(cfCalls) < MaxCalls
  /\ cfCalls' = Append(cfCalls, [filePath |-> filePath, content |-> content,
                                 chunks |-> chunkFile(filePath, content)])
  /\ UNCHANGED <<vars, keyVars, queryVars, pairVars>>

\* ------------------------------------------------------------------ index keys

\* [a-zA-Z0-9_-]
WordChars ==
  {"a", "b", "c", "d", "e", "f", "g", "h", "i", "j", "k", "l", "m", "n", "o",
   "p", "q", "r", "s", "t", "u", "v", "w", "x", "y", "z", "A", "B", "C", "D",
   "E", "F", "G", "H", "I", "J", "K", "L", "M", "N", "O", "P", "Q", "R", "S",
   "T", "U", "V", "W", "X", "Y", "Z", "0", "1", "2", "3", "4", "5", "6", "7",
   "8", "9", "_", "-"}

\* Resolved root directories, as lists of path segments, a segment being a list
\* of characters: two with the same folder name, two whose folder names differ
\* in a character outside WordChars.
RootList ==
  << <<<<"u", "1">>, <<"p", "r", "o", "j">>>>,
     <<<<"u", "2">>, <<"p", "r", "o", "j">>>>,
     <<<<"u", "1">>, <<"m", "y", " ", "a", "p", "p">>>>,
     <<<<"u", "1">>, <<"m", "y", ".", "a", "p", "p">>>> >>
Roots == {RootList[k] : k \in 1..Len(RootList)}
RootNo(root) == CHOOSE k \in 1..Len(RootList) : RootList[k] = root

\* path.basename(REPO_ROOT)
basename(root) == root[Len(root)]

\* folderName.replace(/[^a-zA-Z0-9_-]/g, '_')
INDEX_NAME(root) ==
  LET folderName == basename(root)
  IN [k \in 1..Len(folderName) |->
        IF folderName[k] \in WordChars THEN folderName[k] ELSE "_"]

\* Paths given as target that do not exist: one whose folder name no index has,
\* one with the folder name of an indexed root.
MissingRoots == {<<<<"u", "1">>, <<"g", "o", "n", "e">>>>,
                 <<<<"u", "3">>, <<"p", "r", "o", "j">>>>}

IndexNames == {INDEX_NAME(root) : root \in Roots \cup MissingRoots}

\* The one indexable file of every root, and its text in that root.
RootFile == "a.js"
RootContent(root) == Text(<<Run(40, 10)>>, [src |-> "user", v |-> RootNo(root)])

\* LocalVectorStore.initialize: the index at dataPath/indexName is created when
\* it does not exist.
initialize(dp, indexName) ==
  IF dp[indexName] = <<>> THEN [dp EXCEPT ![indexName] = <<{}>>] ELSE dp

\* The items of the index a root's runs and queries open.
IndexOfRoot(root) ==
  IF dataPath[INDEX_NAME(root)] = <<>> THEN {} ELSE dataPath[INDEX_NAME(root)][1]

PreviousOf(root) == IF rootHashes[root] = <<>> THEN NoHashes ELSE rootHashes[root][1]

DocumentsOf(filePath, content) ==
  LET cs == chunkFile(filePath, content)
  IN [k \in 1..Len(cs) |-> Document(cs[k], embed(cs[k].content))]

\* No index command has run.
NoCmd == [kind |-> "none"]

\* The data directory and the artifacts of the roots, for lastCmd.
KeySnapshot == [dataPath |-> dataPath, rootHashes |-> rootHashes,
                rootMeta |-> rootMeta, garbled |-> garbled]

\* The chunk map and the manifest of a run that indexed the documents.
MetaOf(documents) ==
  [chunkMap |-> [k \in 1..Len(documents) |-> ChunkMapEntry(documents[k])],
   total_chunks |-> Len(documents)]

KeyIdle ==
  /\ dataPath = [n \in IndexNames |-> <<>>]
  /\ rootHashes = [root \in Roots |-> <<>>]
  /\ mine = [root \in Roots |-> {}]
  /\ garbled = {}
  /\ rootMeta = [root \in Roots |-> <<>>]
  /\ lastCmd = NoCmd

\* No query is under way.
QueryIdle ==
  /\ qArgs = [script |-> "none", given |-> FALSE, q |-> <<>>, k |-> 0,
              area |-> <<>>, minScore |-> <<>>, embedder |-> "up"]
  /\ qIndex = <<>>
  /\ qChunkMap = <<>>
  /\ qMapGarbled = FALSE
  /\ qpc = "idle"
  /\ hits = <<>>
  /\ results = <<>>
  /\ outcome = ""

\* A run of processFiles on a root whose file is present: the file is processed
\* when --force is given or its hash is not the stored one.
IndexRoot(root, force) ==
  LET indexName == INDEX_NAME(root)
      opened == initialize(dataPath, indexName)
      previous == PreviousOf(root)
      currentHash == calculateFileHash(RootContent(root))
      removed == IF RootFile \in DOMAIN previous
                 THEN removeDocumentsByFile(opened[indexName][1], RootFile)
                 ELSE opened[indexName][1]
      documents == DocumentsOf(RootFile, RootContent(root))
  IN /\ root \notin garbled
     /\ NeedsProcessing(force, previous, RootFile, currentHash) = TRUE
     /\ dataPath' = [opened EXCEPT ![indexName] = <<indexDocuments(removed, documents)>>]
     /\ rootHashes' = [rootHashes EXCEPT ![root] = <<(RootFile :> currentHash)>>]
     /\ mine' = [mine EXCEPT ![root] = {Item(doc) : doc \in SeqRange(documents)}]
     /\ rootMeta' = [rootMeta EXCEPT ![root] = <<MetaOf(documents)>>]
     /\ lastCmd' = [kind |-> "indexed", root |-> root, exit |-> 0, before |-> KeySnapshot]
     /\ UNCHANGED <<garbled, vars, queryVars, chunkVars, pairVars>>

\* A run of processFiles on a root whose file, indexed before, is deleted.
IndexRootAfterDelete(root) ==
  LET indexName == INDEX_NAME(root)
      opened == initialize(dataPath, indexName)
  IN /\ root \notin garbled
     /\ RootFile \in DOMAIN PreviousOf(root)
     /\ dataPath' = [opened EXCEPT ![indexName] =
                       <<removeDocumentsByFile(opened[indexName][1], RootFile)>>]
     /\ rootHashes' = [rootHashes EXCEPT ![root] = <<NoHashes>>]
     /\ mine' = [mine EXCEPT ![root] = {}]
     /\ rootMeta' = [rootMeta EXCEPT ![root] = <<MetaOf(<<>>)>>]
     /\ lastCmd' = [kind |-> "indexed", root |-> root, exit |-> 0, before |-> KeySnapshot]
     /\ UNCHANGED <<garbled, vars, queryVars, chunkVars, pairVars>>

\* The hash store of a root is overwritten with text that is not JSON (an
\* editor, a merge, a write cut short).
GarbleHashes(root) ==
  /\ rootHashes[root] # <<>>
  /\ root \notin garbled
  /\ garbled' = garbled \cup {root}
  /\ lastCmd' = NoCmd
  /\ UNCHANGED <<dataPath, rootHashes, mine, rootMeta, vars, queryVars, chunkVars, pairVars>>

\* (a hash store that does not parse is read as {}, like one that does not
\* exist: the run indexes the file and rewrites the artifacts)
IndexRootGarbledAsEmpty(root) ==
  LET indexName == INDEX_NAME(root)
      opened == initialize(dataPath, indexName)
      documents == DocumentsOf(RootFile, RootContent(root))
  IN /\ root \in garbled
     /\ dataPath' = [opened EXCEPT ![indexName] =
                       <<indexDocuments(opened[indexName][1], documents)>>]
     /\ rootHashes' = [rootHashes EXCEPT
                         ![root] = <<(RootFile :> calculateFileHash(RootContent(root)))>>]
     /\ mine' = [mine EXCEPT ![root] = {Item(doc) : doc \in SeqRange(documents)}]
     /\ rootMeta' = [rootMeta EXCEPT ![root] = <<MetaOf(documents)>>]
     /\ garbled' = garbled \ {root}
     /\ lastCmd' = [kind |-> "garbled", root |-> root, exit |-> 0, before |-> KeySnapshot]
     /\ UNCHANGED <<vars, queryVars, chunkVars, pairVars>>

\* A run on a root whose hash store does not parse: the module start-up opens
\* the vector store, JSON.parse throws in loadFileHashes, the error is not
\* ENOENT and is rethrown, processFiles rejects, main logs 'Build failed' and
\* exits with 1.
IndexRootGarbled(root) ==
  /\ root \in garbled
  /\ dataPath' = initialize(dataPath, INDEX_NAME(root))
  /\ lastCmd' = [kind |-> "garbled", root |-> root, exit |-> 1, before |-> KeySnapshot]
  /\ UNCHANGED <<rootHashes, mine, garbled, rootMeta, vars, queryVars, chunkVars, pairVars>>

\* A run on a path that does not exist: the module start-up opens the vector
\* store of the path's folder name, then main finds no folder and exits with 1.
IndexMissingRoot(root) ==
  /\ dataPath' = initialize(dataPath, INDEX_NAME(root))
  /\ lastCmd' = [kind |-> "missing", root |-> root, exit |-> 1, before |-> KeySnapshot]
  /\ UNCHANGED <<rootHashes, mine, garbled, rootMeta, vars, queryVars, chunkVars, pairVars>>

KeyInit == IndexerInit /\ KeyIdle /\ QueryIdle /\ ChunkIdle /\ PairIdle

KeyNext ==
  \/ \E root \in Roots, force \in BOOLEAN : IndexRoot(root, force)
  \/ \E root \in Roots : IndexRootAfterDelete(root)
  \/ \E root \in Roots : GarbleHashes(root)
  \/ \E root \in Roots : IndexRootGarbled(root)
  \/ \E root \in MissingRoots : IndexMissingRoot(root)

KeySpec == KeyInit /\ [][KeyNext]_<<vars, sideVars>>

ChunkInit == IndexerInit /\ KeyIdle /\ QueryIdle /\ ChunkIdle /\ PairIdle

ChunkNext == \E filePath \in ChunkPaths, content \in ChunkContents :
               CallChunkFile(filePath, content)

ChunkSpec == ChunkInit /\ [][ChunkNext]_<<vars, sideVars>>

\* ------------------------------------------------------------------ query: inputs

\* Scores are integers, in units of 1/ScoreUnit: the unit makes every product
\* and quotient the code computes on the model's scores exact.
ScoreUnit == 4200

\* The words of a text or of a query, lower case.
QueryTexts == {<<"auth">>, <<"auth", "logic">>}

\* cosine similarity of an item's vector and the query's, in seventieths.
\* "cancel" is -4/7 (the double -0.5714285714285714): with a text score of 4/3,
\* score * 0.7 + textScore * 0.3 is 0.
Cosine70(vector) ==
  CASE vector = "same" -> 70
    [] vector = "near" -> 42
    [] vector = "orth" -> 0
    [] vector = "cancel" -> -40
    [] vector = "opp" -> -70

\* The chunk chunkFile cuts at its j-th step from a file of n lines, as the item
\* addDocuments stores.
QItem(filePath, n, j, words, vector) ==
  LET start == j * (maxLinesPerChunk(filePath) - overlap)
  IN [id |-> ChunkId(filePath, start),
      vector |-> vector,
      content |-> words,
      repo_path |-> filePath,
      area |-> getFileArea(filePath),
      language |-> getLanguage(filePath),
      start_line |-> start,
      end_line |-> Min(start + maxLinesPerChunk(filePath), n)]

\* The items an index may hold, in the order listItems returns them.
Corpus ==
  << QItem(ApiFile, 40, 0, <<"auth", "logic">>, "near"),
     QItem(ApiFile, 40, 1, <<"session">>, "orth"),
     QItem(UiFile, 125, 0, <<"auth", "logic", "auth", "logic">>, "orth"),
     QItem(UiFile, 125, 1, <<"auth">>, "near"),
     QItem(UiFile, 125, 2, <<"logic">>, "same"),
     QItem(UiFile, 125, 3, <<"auth", "logic">>, "cancel"),
     QItem(UiFile, 125, 4, <<"auth", "logic">>, "opp"),
     QItem(GuideFile, 20, 0, <<"session">>, "same") >>

SubSeqOf(s, keep) == SelectSeq(s, LAMBDA x : x \in keep)

\* ------------------------------------------------------------------ query: local-vector-store

\* The positions of a list of keys in descending order of key, equal keys in
\* their original order.
RECURSIVE InsertDesc(_, _, _)
InsertDesc(sorted, x, keys) ==
  IF sorted = <<>> THEN <<x>>
  ELSE IF keys[Head(sorted)] >= keys[x]
       THEN <<Head(sorted)>> \o InsertDesc(Tail(sorted), x, keys)
       ELSE <<x>> \o sorted

RECURSIVE SortedPositions(_, _)
SortedPositions(keys, n) ==
  IF n = 0 THEN <<>> ELSE InsertDesc(SortedPositions(keys, n - 1), n, keys)

\* Stable sort of a list by descending key: Array.prototype.sort((a, b) => key(b) - key(a))
SortDesc(s, key(_)) ==
  LET keys == [j \in 1..Len(s) |-> key(s[j])]
      at == SortedPositions(keys, Len(s))
  IN [j \in 1..Len(s) |-> s[at[j]]]

\* Array.prototype.slice(0, n)
Slice(s, n) == SubSeq(s, 1, Min(Len(s), Max(n, 0)))

\* The query occurs in the content at position p.
MatchesAt(content, query, p) ==
  /\ p + Len(query) - 1 <= Len(content)
  /\ \A j \in 1..Len(query) : content[p + j - 1] = query[j]

\* content.includes(query)
Includes(content, query) ==
  \E p \in 1..Len(content) : MatchesAt(content, query, p)

\* (content.match(new RegExp(query, 'gi')) || []).length: matches, left to right,
\* not overlapping
RECURSIVE ExactMatches(_, _, _)
ExactMatches(content, query, p) ==
  IF p > Len(content) THEN 0
  ELSE IF MatchesAt(content, query, p)
       THEN 1 + ExactMatches(content, query, p + Len(query))
       ELSE ExactMatches(content, query, p + 1)

calculateTextScore(content, query) ==
  LET exactMatches == ExactMatches(content, query, 1)
      wordMatches == Cardinality({j \in 1..Len(query) : Includes(content, <<query[j]>>)})
  IN ((exactMatches * 2 + wordMatches) * ScoreUnit) \div (Len(query) + 1)

\* index.queryItems(queryEmbedding, k): the k items nearest by cosine similarity
queryItems(items, k) ==
  LET scored == [j \in 1..Len(items) |->
                   [item |-> items[j],
                    score |-> (Cosine70(items[j].vector) * ScoreUnit) \div 70]]
  IN Slice(SortDesc(scored, LAMBDA r : r.score), k)

\* search(queryEmbedding, {k, filter, scoreThreshold})
search(items, k, filter, scoreThreshold) ==
  LET found == queryItems(items, k)
      byArea == IF filter.area # <<>>
                THEN SelectSeq(found, LAMBDA r : r.item.area = filter.area[1])
                ELSE found
      byScore == IF scoreThreshold > 0
                 THEN SelectSeq(byArea, LAMBDA r : r.score >= scoreThreshold)
                 ELSE byArea
  IN [j \in 1..Len(byScore) |->
        [id |-> byScore[j].item.id, score |-> byScore[j].score,
         metadata |-> byScore[j].item]]

textWeight10 == 3
vectorWeight10 == 7

\* (a text result that is among the vector results replaces it)
RECURSIVE CombineReplacing(_, _)
CombineReplacing(combined, textResults) ==
  IF textResults = <<>> THEN combined
  ELSE LET r == Head(textResults)
           at == {j \in 1..Len(combined) : combined[j].id = r.id}
       IN IF at # {}
          THEN LET j == CHOOSE x \in at : TRUE
               IN CombineReplacing([combined EXCEPT ![j].finalScore =
                                      (r.score * textWeight10) \div 10],
                                   Tail(textResults))
          ELSE CombineReplacing(Append(combined,
                         [id |-> r.id, score |-> r.score, metadata |-> r.metadata,
                          finalScore |-> (r.score * textWeight10) \div 10]),
                       Tail(textResults))

\* combined: the vector results, then the text results not among them
RECURSIVE Combine(_, _)
Combine(combined, textResults) ==
  IF textResults = <<>> THEN combined
  ELSE LET r == Head(textResults)
           at == {j \in 1..Len(combined) : combined[j].id = r.id}
       IN IF at # {}
          THEN LET j == CHOOSE x \in at : TRUE
               IN Combine([combined EXCEPT ![j].finalScore =
                             @ + (r.score * textWeight10) \div 10],
                          Tail(textResults))
          ELSE Combine(Append(combined,
                         [id |-> r.id, score |-> r.score, metadata |-> r.metadata,
                          finalScore |-> (r.score * textWeight10) \div 10]),
                       Tail(textResults))

\* hybridSearch(query, queryEmbedding, {k, filter}); options.scoreThreshold is not read
hybridSearch(items, query, k, filter) ==
  LET vectorResults == search(items, k * 2, filter, 0)
      matching == SelectSeq(items, LAMBDA it : Includes(it.content, query))
      textResults == SortDesc([j \in 1..Len(matching) |->
                                 [id |-> matching[j].id,
                                  score |-> calculateTextScore(matching[j].content, query),
                                  metadata |-> matching[j]]],
                              LAMBDA r : r.score)
      withVector == [j \in 1..Len(vectorResults) |->
                       [id |-> vectorResults[j].id, score |-> vectorResults[j].score,
                        metadata |-> vectorResults[j].metadata,
                        finalScore |-> (vectorResults[j].score * vectorWeight10) \div 10]]
      combined == Combine(withVector, Slice(textResults, k * 2))
  IN Slice(SortDesc(combined, LAMBDA r : r.finalScore), k)

\* ------------------------------------------------------------------ query: lib/query.js

\* searchLocal: the results of hybridSearch as hits. The items carry no
\* parent_id, so parent_id is the repo_path; the hits carry no _id.
searchLocal(items, query, k, area, minScore) ==
  LET found == hybridSearch(items, query, k, [area |-> area])
  IN [j \in 1..Len(found) |->
        [_id |-> <<>>,
         _source |-> [repo_path |-> found[j].metadata.repo_path,
                      content |-> found[j].metadata.content,
                      area |-> found[j].metadata.area,
                      parent_id |-> found[j].metadata.repo_path,
                      language |-> found[j].metadata.language],
         _score |-> IF found[j].finalScore # 0
                    THEN found[j].finalScore ELSE found[j].score]]

maxPerFile == 3

\* The parents of the hits, each once, in the order of their first hit.
RECURSIVE ParentsOf(_, _)
ParentsOf(hs, seen) ==
  IF hs = <<>> THEN <<>>
  ELSE LET parent == Head(hs)._source.parent_id
       IN IF parent \in seen THEN ParentsOf(Tail(hs), seen)
          ELSE <<parent>> \o ParentsOf(Tail(hs), seen \cup {parent})

HitsOf(hs, parent) == SelectSeq(hs, LAMBDA h : h._source.parent_id = parent)

groupResultsByFile(hs) ==
  LET parents == ParentsOf(hs, {})
      group(parent) ==
        LET own == HitsOf(hs, parent)
            kept == Slice(own, maxPerFile)
        IN [path |-> parent,
            language |-> own[1]._source.language,
            area |-> own[1]._source.area,
            bestScore |-> own[1]._score,
            chunks |-> [j \in 1..Len(kept) |->
                          [content |-> kept[j]._source.content,
                           score |-> kept[j]._score]]]
  IN SortDesc([j \in 1..Len(parents) |-> group(parents[j])], LAMBDA g : g.bestScore)

\* Module start-up of lib/query.js: the embedding model is loaded, then the
\* vector store of the target opened, which creates the index if there is none.
LocalStart ==
  /\ qpc = "start" /\ qArgs.script = "local"
  /\ IF qArgs.embedder = "denied"
     THEN qpc' = "done" /\ outcome' = "crashed" /\ UNCHANGED qIndex
     ELSE qpc' = "ready" /\ outcome' = ""
          /\ qIndex' = IF qIndex = <<>> THEN <<<<>>>> ELSE qIndex
  /\ UNCHANGED <<qArgs, qChunkMap, qMapGarbled, hits, results, vars, keyVars, chunkVars, pairVars>>

\* main: if (!query), no query text or the empty string
LocalUsageError ==
  /\ qpc = "ready" /\ qArgs.script = "local"
  /\ qArgs.q = <<>>
  /\ qpc' = "done" /\ outcome' = "usage"
  /\ UNCHANGED <<qArgs, qIndex, qChunkMap, qMapGarbled, hits, results, vars, keyVars, chunkVars, pairVars>>

\* main: embed throws inside searchLocal, the catch reports 'Query failed'
LocalEmbedFails ==
  /\ qpc = "ready" /\ qArgs.script = "local"
  /\ qArgs.q # <<>>
  /\ qArgs.embedder = "unsupported"
  /\ qpc' = "done" /\ outcome' = "failed"
  /\ UNCHANGED <<qArgs, qIndex, qChunkMap, qMapGarbled, hits, results, vars, keyVars, chunkVars, pairVars>>

\* main: searchHybrid(query, k * 2, area, minScore)
LocalSearch ==
  /\ qpc = "ready" /\ qArgs.script = "local"
  /\ qArgs.q # <<>>
  /\ qArgs.embedder = "up"
  /\ hits' = searchLocal(qIndex[1], qArgs.q, qArgs.k * 2, qArgs.area, qArgs.minScore)
  /\ qpc' = "searched"
  /\ UNCHANGED <<qArgs, qIndex, qChunkMap, qMapGarbled, results, outcome, vars, keyVars, chunkVars, pairVars>>

\* LocalReport without fileGroups.slice(0, k)
LocalReportAll ==
  /\ qpc = "searched" /\ qArgs.script = "local"
  /\ IF Len(hits) = 0
     THEN outcome' = "noResults" /\ UNCHANGED results
     ELSE outcome' = "results"
          /\ results' = groupResultsByFile(hits)
  /\ qpc' = "done"
  /\ UNCHANGED <<qArgs, qIndex, qChunkMap, qMapGarbled, hits, vars, keyVars, chunkVars, pairVars>>

\* main: 'No results found.', or the top k of the files grouped
LocalReport ==
  /\ qpc = "searched" /\ qArgs.script = "local"
  /\ IF Len(hits) = 0
     THEN outcome' = "noResults" /\ UNCHANGED results
     ELSE outcome' = "results"
          /\ results' = Slice(groupResultsByFile(hits), qArgs.k)
  /\ qpc' = "done"
  /\ UNCHANGED <<qArgs, qIndex, qChunkMap, qMapGarbled, hits, vars, keyVars, chunkVars, pairVars>>

\* ------------------------------------------------------------------ query: tools/ai_index/query.js

\* (a service that ignores the text of the query: the chunks that pass the area
\* filter, in index order, all with score 0)
osSearchIgnoringText(items, query, size, area, queryVector) ==
  LET passing == IF area # <<>>
                 THEN SelectSeq(items, LAMBDA it : it.area = area[1]) ELSE items
  IN Slice([j \in 1..Len(passing) |->
              [_id |-> <<passing[j].id>>,
               _source |-> [repo_path |-> passing[j].repo_path,
                            content |-> passing[j].content,
                            area |-> passing[j].area,
                            parent_id |-> passing[j].repo_path,
                            language |-> passing[j].language],
               _score |-> 0]], size)

\* What the search service answers: the hits of the index that pass the area
\* filter, by descending score, at most size of them. The service scores a chunk
\* by the text and, unless the query vector is null, by the vector. For the
\* empty string the match clauses match nothing and the wildcard "**" of the
\* text-only request matches every chunk.
osSearch(items, query, size, area, queryVector) ==
  LET passing == IF area # <<>>
                 THEN SelectSeq(items, LAMBDA it : it.area = area[1]) ELSE items
      textPart(it) == IF query = <<>>
                      THEN IF queryVector = <<>> THEN ScoreUnit ELSE 0
                      ELSE IF Includes(it.content, query)
                      THEN (calculateTextScore(it.content, query) * textWeight10) \div 10
                      ELSE 0
      vectorPart(it) == IF queryVector = <<>> THEN 0
                        ELSE (Cosine70(it.vector) * ScoreUnit * vectorWeight10) \div 700
      matching == IF queryVector = <<>> /\ query # <<>>
                  THEN SelectSeq(passing, LAMBDA it : Includes(it.content, query))
                  ELSE passing
      scored == [j \in 1..Len(matching) |->
                   [_id |-> <<matching[j].id>>,
                    _source |-> [repo_path |-> matching[j].repo_path,
                                 content |-> matching[j].content,
                                 area |-> matching[j].area,
                                 parent_id |-> matching[j].repo_path,
                                 language |-> matching[j].language],
                    _score |-> textPart(matching[j]) + vectorPart(matching[j])]]
  IN Slice(SortDesc(scored, LAMBDA h : h._score), size)

\* String.prototype.endsWith, for the model's paths: none is a proper suffix of
\* another.
EndsWith(a, b) == a = b

\* Array.prototype.find: <<>> or <<the first element that passes>>
Find(s, test(_)) ==
  LET at == {j \in 1..Len(s) : test(s[j])}
  IN IF at = {} THEN <<>> ELSE <<s[CHOOSE j \in at : \A x \in at : j <= x]>>

\* chunkMap.find(by file) || chunkMap.find(by chunk id) || chunkMap.find(by suffix)
chunkInfoOf(entries, hit) ==
  LET byFile == Find(entries, LAMBDA c : c.file = hit._source.repo_path)
      byId == Find(entries, LAMBDA c : <<c.chunk_id>> = hit._id)
      bySuffix == Find(entries, LAMBDA c : EndsWith(hit._source.repo_path, c.file))
  IN IF byFile # <<>> THEN byFile ELSE IF byId # <<>> THEN byId ELSE bySuffix

\* chunkInfo?.start || chunkInfo?.start_line || 1: the entries of the chunk map
\* have no start_line, and 0 is falsy
SnippetStart(chunkInfo) ==
  IF chunkInfo # <<>> /\ chunkInfo[1].start # 0 THEN chunkInfo[1].start ELSE 1

\* chunkInfo?.end || chunkInfo?.end_line || 1
SnippetEnd(chunkInfo) ==
  IF chunkInfo # <<>> /\ chunkInfo[1]["end"] # 0 THEN chunkInfo[1]["end"] ELSE 1

RECURSIVE MaxScore(_)
MaxScore(hs) ==
  IF Len(hs) = 1 THEN hs[1]._score ELSE Max(hs[1]._score, MaxScore(Tail(hs)))

\* expandToParent. A snippet also keeps the _id of its hit (of), which the code
\* drops: it tells which chunk the snippet reports.
expandToParent(hs, entries, minScore) ==
  LET parents == ParentsOf(hs, {})
      group(parent) ==
        LET own == HitsOf(hs, parent)
            snippets == [j \in 1..Len(own) |->
                           [start |-> SnippetStart(chunkInfoOf(entries, own[j])),
                            end |-> SnippetEnd(chunkInfoOf(entries, own[j])),
                            score |-> own[j]._score,
                            of |-> own[j]._id]]
        IN [path |-> parent,
            area |-> own[1]._source.area,
            score |-> MaxScore(own),
            snippets |-> Slice(SortDesc(snippets, LAMBDA sn : sn.score), 3)]
      sorted == SortDesc([j \in 1..Len(parents) |-> group(parents[j])],
                         LAMBDA g : g.score)
  IN IF minScore # <<>>
     THEN SelectSeq(sorted, LAMBDA r : r.score >= minScore[1])
     ELSE sorted

\* main: no --q, or nothing after it; the empty string is not undefined
CloudUsageError ==
  /\ qpc = "start" /\ qArgs.script = "cloud"
  /\ ~qArgs.given
  /\ qpc' = "done" /\ outcome' = "usage"
  /\ UNCHANGED <<qArgs, qIndex, qChunkMap, qMapGarbled, hits, results, vars, keyVars, chunkVars, pairVars>>

\* searchHybrid: embed rethrows what is not an AccessDeniedException, and the
\* search of an index that does not exist throws; main reports 'Query failed'
CloudSearchFails ==
  /\ qpc = "start" /\ qArgs.script = "cloud"
  /\ qArgs.given
  /\ qArgs.embedder = "unsupported" \/ qIndex = <<>>
  /\ qpc' = "done" /\ outcome' = "failed"
  /\ UNCHANGED <<qArgs, qIndex, qChunkMap, qMapGarbled, hits, results, vars, keyVars, chunkVars, pairVars>>

\* searchHybrid(query, k, area, minScore): size k * 2, text only when embed
\* returned null
CloudSearch ==
  /\ qpc = "start" /\ qArgs.script = "cloud"
  /\ qArgs.given
  /\ qArgs.embedder # "unsupported" /\ qIndex # <<>>
  /\ hits' = osSearch(qIndex[1], qArgs.q, qArgs.k * 2, qArgs.area,
                      IF qArgs.embedder = "up" THEN <<embed(qArgs.q)>> ELSE <<>>)
  /\ qpc' = "searched"
  /\ UNCHANGED <<qArgs, qIndex, qChunkMap, qMapGarbled, results, outcome, vars, keyVars, chunkVars, pairVars>>

\* loadChunkMap: the entries of the file; [] with a warning when it cannot be read
\* or a line cannot be parsed
loadChunkMap == IF qMapGarbled THEN <<>> ELSE qChunkMap

\* main: expandToParent(hits, chunkMap, minScore), then files: results.slice(0, k)
CloudExpand ==
  /\ qpc = "searched" /\ qArgs.script = "cloud"
  /\ results' = Slice(expandToParent(hits, loadChunkMap, qArgs.minScore), qArgs.k)
  /\ outcome' = "results"
  /\ qpc' = "done"
  /\ UNCHANGED <<qArgs, qIndex, qChunkMap, qMapGarbled, hits, vars, keyVars, chunkVars, pairVars>>

\* ------------------------------------------------------------------ query: specification

MinScores == {3444}
QueryK == {1, 2}

\* given: a query text follows --q; q = <<>> is no text or the empty string.
QueryArgs ==
  {a \in [script : {"local", "cloud"},
           given : BOOLEAN,
           q : QueryTexts \cup {<<>>},
           k : QueryK,
           area : {<<>>, <<"backend">>},
           minScore : {<<>>} \cup {<<x>> : x \in MinScores},
           embedder : {"up", "denied", "unsupported"}] :
     a.given \/ a.q = <<>>}

\* The entry processFiles writes to the chunk map for an item's chunk.
EntryOfItem(it) ==
  ChunkMapEntry([id |-> it.id, repo_path |-> it.repo_path,
                 start_line |-> it.start_line, end_line |-> it.end_line,
                 parent_id |-> it.repo_path, area |-> it.area])

\* The indexes whose chunk map is taken as garbled: those of the chunks of the
\* first file of the corpus.
GarbledKept == (SUBSET {Corpus[1], Corpus[2]}) \ {{}}

\* A query starts on a target never indexed, or indexed with some of the corpus;
\* the chunk map is as processFiles wrote it or has been garbled since.
QueryInit ==
  /\ IndexerInit /\ KeyIdle /\ ChunkIdle /\ PairIdle
  /\ qArgs \in QueryArgs
  /\ \/ qIndex = <<>> /\ qChunkMap = <<>> /\ qMapGarbled = FALSE
     \/ \E kept \in SUBSET SeqRange(Corpus) :
          /\ qIndex = <<SubSeqOf(Corpus, kept)>>
          /\ qChunkMap = [j \in 1..Len(SubSeqOf(Corpus, kept)) |->
                            EntryOfItem(SubSeqOf(Corpus, kept)[j])]
          /\ qMapGarbled \in {g \in BOOLEAN : g => kept \in GarbledKept}
  /\ qpc = "start"
  /\ hits = <<>>
  /\ results = <<>>
  /\ outcome = ""

QueryNext ==
  \/ LocalStart
  \/ LocalUsageError
  \/ LocalEmbedFails
  \/ LocalSearch
  \/ LocalReport
  \/ CloudUsageError
  \/ CloudSearchFails
  \/ CloudSearch
  \/ CloudExpand

QuerySpec == QueryInit /\ [][QueryNext]_<<vars, sideVars>>

\* ------------------------------------------------------------------ specification

Init == IndexerInit /\ KeyIdle /\ QueryIdle /\ ChunkIdle /\ PairIdle

Next ==
  \/ \E force \in BOOLEAN : StartRun(force)
  \/ BeginFile
  \/ EmbedChunk
  \/ EmbedFails
  \/ FinalFlush
  \/ FinalFlushFails
  \/ SweepDeleted
  \/ saveFileHashes
  \/ WriteChunkMap
  \/ WriteManifest
  \/ Kill
  \/ \E f \in UserFiles, c \in TreeValues : EditFile(f, c)

Spec == Init /\ [][Next]_vars

\* Runs over a tree with a file of more chunks than one batch holds.
BigFileLines == 1300
BigFile == Text(<<Run(BigFileLines, 10)>>, [src |-> "user", v |-> 3])
SmallFile == Text(<<Run(10, 10)>>, [src |-> "user", v |-> 2])

BatchNext ==
  \/ EditFile("a.js", BigFile)
  \/ EditFile("b.md", SmallFile)
  \/ \E force \in BOOLEAN : StartRun(force)
  \/ BeginFile
  \/ EmbedChunk
  \/ BulkFlushFails
  \/ FinalFlush
  \/ FinalFlushFails
  \/ saveFileHashes
  \/ WriteChunkMap
  \/ WriteManifest

BatchSpec == Init /\ [][BatchNext]_vars

\* ------------------------------------------------------------------ two runs on one target

\* The files under REPO_ROOT as a run finds them: the user's and the two
\* artifacts that match the glob patterns.
DiskOf(t, sh) ==
  [f \in Files |->
     CASE f \in UserFiles -> t[f]
       [] f = HashFile ->
            IF sh.fileHashes = <<>> THEN Absent ELSE HashesText(sh.fileHashes[1])
       [] f = ManifestFile ->
            IF sh.manifestFile = <<>> THEN Absent ELSE ManifestText(sh.manifestFile[1])]

\* processFiles up to the file loop: the hash store is loaded, the files are
\* listed, hashed and classified; with nothing to process and no --force the
\* run returns.
Loaded(t, sh, force) ==
  LET disk == DiskOf(t, sh)
      prev == IF sh.fileHashes = <<>> THEN NoHashes ELSE sh.fileHashes[1]
      toProcess == Classify(disk, force, prev)
  IN [pc |-> IF Len(toProcess) = 0 /\ ~force THEN "done"
             ELSE IF Len(toProcess) = 0 THEN "flush" ELSE "file",
      FORCE_REINDEX |-> force,
      files |-> Glob(disk),
      previousHashes |-> prev,
      currentHashes |-> HashAll(disk),
      filesToProcess |-> toProcess,
      i |-> 1, chunkMap |-> <<>>, pendingDocuments |-> <<>>, totalChunks |-> 0, d |-> 1]

\* Object.keys(previousHashes).filter(file => !currentHashes[file])
DeletedOf(r) ==
  SelectSeq(FileOrder, LAMBDA f :
    f \in DOMAIN r.previousHashes /\ f \notin DOMAIN r.currentHashes)

\* One iteration of the loop over filesToProcess: removeDocumentsByFile if the
\* file has a previous hash (the one call on the vector store), then the file is
\* chunked and every chunk embedded, staged and recorded in the chunk map.  The
\* files of this specification have fewer than MAX_BULK_SIZE chunks together.
FileStep(sh, r) ==
  LET e == r.filesToProcess[r.i]
      cs == chunkFile(e.file, e.content)
  IN [sh |-> [sh EXCEPT !.store = IF e.file \in DOMAIN r.previousHashes
                                  THEN removeDocumentsByFile(@, e.file) ELSE @],
      r |-> [r EXCEPT
               !.pendingDocuments =
                  @ \o [j \in 1..Len(cs) |-> Document(cs[j], embed(cs[j].content))],
               !.chunkMap = @ \o [j \in 1..Len(cs) |-> ChunkMapEntry(cs[j])],
               !.i = @ + 1,
               !.pc = IF r.i + 1 > Len(r.filesToProcess) THEN "flush" ELSE "file"]]

\* if (pendingDocuments.length > 0) indexDocuments(pendingDocuments)
FlushStep(sh, r) ==
  [sh |-> [sh EXCEPT !.store = indexDocuments(@, r.pendingDocuments)],
   r |-> [r EXCEPT !.totalChunks = @ + Len(r.pendingDocuments),
                   !.pc = IF Len(DeletedOf(r)) = 0 THEN "saveHashes" ELSE "sweep"]]

\* One iteration of the loop over deletedFiles.
SweepStep(sh, r) ==
  [sh |-> [sh EXCEPT !.store = removeDocumentsByFile(@, DeletedOf(r)[r.d])],
   r |-> [r EXCEPT !.d = @ + 1,
                   !.pc = IF r.d + 1 > Len(DeletedOf(r)) THEN "saveHashes" ELSE "sweep"]]

\* saveFileHashes(currentHashes)
HashesStep(sh, r) ==
  [sh |-> [sh EXCEPT !.fileHashes = <<r.currentHashes>>],
   r |-> [r EXCEPT !.pc = "saveChunkMap"]]

\* fs.writeFile(chunkMapPath, ...)
ChunkMapStep(sh, r) ==
  [sh |-> [sh EXCEPT !.chunkMapFile = <<r.chunkMap>>],
   r |-> [r EXCEPT !.pc = "saveManifest"]]

\* fs.writeFile(.../ai_index/manifest.json, ...)
ManifestStep(sh, r, clock) ==
  [sh |-> [sh EXCEPT !.manifestFile =
             <<[last_built_at |-> clock,
                total_chunks |-> r.totalChunks,
                total_files |-> Len(r.files),
                processed_files |-> Len(r.filesToProcess),
                skipped_files |-> Len(r.files) - Len(r.filesToProcess)]>>],
   r |-> [r EXCEPT !.pc = "done"]]

\* The step of processFiles the run stands at.
RunStep(sh, r, clock) ==
  CASE r.pc = "file" -> FileStep(sh, r)
    [] r.pc = "flush" -> FlushStep(sh, r)
    [] r.pc = "sweep" -> SweepStep(sh, r)
    [] r.pc = "saveHashes" -> HashesStep(sh, r)
    [] r.pc = "saveChunkMap" -> ChunkMapStep(sh, r)
    [] r.pc = "saveManifest" -> ManifestStep(sh, r, clock)

RECURSIVE Finish(_, _, _)
Finish(sh, r, clock) ==
  IF r.pc = "done" THEN sh
  ELSE LET o == RunStep(sh, r, clock) IN Finish(o.sh, o.r, clock)

\* What one run of processFiles, alone, makes of the target.
Solo(t, sh, force, clock) == Finish(sh, Loaded(t, sh, force), clock)

\* The tree an earlier run indexed, and the trees the two runs may find.
OldTree == [f \in UserFiles |-> IF f = "a.js" THEN Text(<<Run(40, 10)>>, [src |-> "user", v |-> 1])
                                ELSE Text(<<Run(10, 10)>>, [src |-> "user", v |-> 2])]
PairTrees == [UserFiles -> Contents \cup {Absent}]

\* The target is new, or one run completed on it before the user's last edits.
PairInit ==
  /\ IndexerInit /\ KeyIdle /\ QueryIdle /\ ChunkIdle
  /\ pTree \in PairTrees
  /\ pShared \in {NoShared, Solo(OldTree, NoShared, FALSE, 0)}
  /\ pFirst = pShared
  /\ pRun = [p \in Runs |-> IdleRun]
  /\ pClock = 1
  /\ pOverlap = FALSE

RunStart(p, force) ==
  /\ pRun[p].pc = "idle"
  /\ pRun' = [pRun EXCEPT ![p] = Loaded(pTree, pShared, force)]
  /\ pOverlap' = (pOverlap \/ \E q \in Runs \ {p} : pRun[q].pc \notin {"idle", "done"})
  /\ UNCHANGED <<pTree, pShared, pFirst, pClock>>
  /\ UNCHANGED <<vars, keyVars, queryVars, chunkVars>>

RunBeginFile(p) ==
  /\ pRun[p].pc = "file"
  /\ pShared' = FileStep(pShared, pRun[p]).sh
  /\ pRun' = [pRun EXCEPT ![p] = FileStep(pShared, pRun[p]).r]
  /\ UNCHANGED <<pTree, pFirst, pClock, pOverlap>>
  /\ UNCHANGED <<vars, keyVars, queryVars, chunkVars>>

RunFinalFlush(p) ==
  /\ pRun[p].pc = "flush"
  /\ pShared' = FlushStep(pShared, pRun[p]).sh
  /\ pRun' = [pRun EXCEPT ![p] = FlushStep(pShared, pRun[p]).r]
  /\ UNCHANGED <<pTree, pFirst, pClock, pOverlap>>
  /\ UNCHANGED <<vars, keyVars, queryVars, chunkVars>>

RunSweepDeleted(p) ==
  /\ pRun[p].pc = "sweep"
  /\ pShared' = SweepStep(pShared, pRun[p]).sh
  /\ pRun' = [pRun EXCEPT ![p] = SweepStep(pShared, pRun[p]).r]
  /\ UNCHANGED <<pTree, pFirst, pClock, pOverlap>>
  /\ UNCHANGED <<vars, keyVars, queryVars, chunkVars>>

RunSaveFileHashes(p) ==
  /\ pRun[p].pc = "saveHashes"
  /\ pShared' = HashesStep(pShared, pRun[p]).sh
  /\ pRun' = [pRun EXCEPT ![p] = HashesStep(pShared, pRun[p]).r]
  /\ UNCHANGED <<pTree, pFirst, pClock, pOverlap>>
  /\ UNCHANGED <<vars, keyVars, queryVars, chunkVars>>

RunWriteChunkMap(p) ==
  /\ pRun[p].pc = "saveChunkMap"
  /\ pShared' = ChunkMapStep(pShared, pRun[p]).sh
  /\ pRun' = [pRun EXCEPT ![p] = ChunkMapStep(pShared, pRun[p]).r]
  /\ UNCHANGED <<pTree, pFirst, pClock, pOverlap>>
  /\ UNCHANGED <<vars, keyVars, queryVars, chunkVars>>

RunWriteManifest(p) ==
  /\ pRun[p].pc = "saveManifest"
  /\ pShared' = ManifestStep(pShared, pRun[p], pClock).sh
  /\ pRun' = [pRun EXCEPT ![p] = ManifestStep(pShared, pRun[p], pClock).r]
  /\ pClock' = pClock + 1
  /\ UNCHANGED <<pTree, pFirst, pOverlap>>
  /\ UNCHANGED <<vars, keyVars, queryVars, chunkVars>>

PairNext ==
  \/ \E p \in Runs, force \in BOOLEAN : RunStart(p, force)
  \/ \E p \in Runs : RunBeginFile(p)
  \/ \E p \in Runs : RunFinalFlush(p)
  \/ \E p \in Runs : RunSweepDeleted(p)
  \/ \E p \in Runs : RunSaveFileHashes(p)
  \/ \E p \in Runs : RunWriteChunkMap(p)
  \/ \E p \in Runs : RunWriteManifest(p)

PairSpec == PairInit /\ [][PairNext]_<<vars, sideVars>>

\* ------------------------------------------------------------------ properties

\* What chunkFile, embed and addDocuments make of one file.
ExpectedItems(f, content) ==
  {Item(Document(c, embed(c.content))) : c \in SeqRange(chunkFile(f, content))}

\* The items an index of the user's file f holds.
IndexOfFile(f) == IF tree[f].kind = "text" THEN ExpectedItems(f, tree[f]) ELSE {}

ToProcessFiles == {filesToProcess[k].file : k \in 1..Len(filesToProcess)}

\* The run that just completed wrote the artifacts (it did not return early).
Persisted == pc = "done" /\ (Len(filesToProcess) > 0 \/ FORCE_REINDEX)

NoFault == kills = 0 /\ fails = 0

\* C1: a run without --force that follows a completed run on the same, unedited
\* tree has nothing to process, calls embed for no file and leaves the number of
\* items in the vector store as it was (stated for histories without a kill or a
\* failed call).
C1_RerunIsIdempotent ==
  (pc = "done" /\ ~FORCE_REINDEX /\ prevOutcome = "done" /\ NoFault)
    => /\ Len(filesToProcess) = 0
       /\ embedded = {}
       /\ Cardinality(store) = Cardinality(startStore)

\* C2: a file of the user whose text differs between two consecutive completed
\* runs has, after the second, exactly the items chunkFile yields from its new
\* text.
C2_ChangedFileReplaced ==
  (pc = "done" /\ Len(lastDoneTree) = 1)
    => \A f \in UserFiles :
         (/\ lastDoneTree[1][f].kind = "text"
          /\ tree[f].kind = "text"
          /\ lastDoneTree[1][f] # tree[f])
           => ItemsOf(store, f) = ExpectedItems(f, tree[f])

\* C3: a file indexed by a completed run and then removed from the tree has no item
\* in the vector store and no key in the hash store once the next run completed,
\* with or without --force.
C3_RemovedFileForgotten ==
  (pc = "done" /\ Len(lastDoneTree) = 1)
    => \A f \in UserFiles :
         (lastDoneTree[1][f].kind = "text" /\ tree[f] = Absent)
           => /\ ItemsOf(store, f) = {}
              /\ f \notin DOMAIN loadFileHashes

\* C3 happens: a run without --force completed on a tree from which a file with
\* items in the store and a key in the hash store had been removed, no other file
\* of the user edited.
C3_Witness ==
  /\ pc = "done" /\ ~FORCE_REINDEX /\ Len(lastDoneTree) = 1
  /\ \E f \in UserFiles :
       /\ lastDoneTree[1][f].kind = "text"
       /\ tree = [lastDoneTree[1] EXCEPT ![f] = Absent]
       /\ ItemsOf(startStore, f) # {}
       /\ f \in DOMAIN previousHashes

\* C4: in a run without --force neither chunkFile nor embed is called for a file
\* whose fresh hash equals its hash in the previous hash store.
C4_UnchangedNeverReembedded ==
  ~FORCE_REINDEX
    => \A f \in chunked \cup embedded :
         ~(/\ f \in DOMAIN previousHashes
           /\ f \in DOMAIN currentHashes
           /\ previousHashes[f] = currentHashes[f])

\* C4 happens: a completed run without --force embedded one file and skipped
\* another one whose hash was unchanged.
C4_Witness ==
  /\ pc = "done" /\ ~FORCE_REINDEX
  /\ embedded # {}
  /\ \E f \in DOMAIN currentHashes \ (embedded \cup chunked) :
       f \in DOMAIN previousHashes /\ previousHashes[f] = currentHashes[f]

\* C5: the run that completes after a killed run on the same tree reprocesses
\* every file the killed run had begun to process, and leaves the vector store
\* with exactly the chunks of the user's files in the tree (stated for histories
\* with that one kill and no failed call).
C5_KilledRunRecovered ==
  (pc = "done" /\ prevOutcome = "killed" /\ kills = 1 /\ fails = 0)
    => /\ prevTouched \subseteq ToProcessFiles
       /\ \A f \in UserFiles : ItemsOf(store, f) = IndexOfFile(f)

\* C6: before the final flush and the deleted-file sweep are over, and after a
\* kill or failure up to then, the hash store, the chunk map and the manifest are
\* what they were when the run started; once one of them differs, every staged
\* document was written and every deleted file swept.
C6_ArtifactsWrittenLast ==
  pc # "idle"
    => /\ (pc \in BeforePersist \/ stoppedAt \in BeforePersist)
            => Artifacts = startFiles
       /\ (Artifacts # startFiles /\ pc \in Running \cup {"done"})
            => /\ {Item(doc) : doc \in SeqRange(pendingDocuments)} \subseteq written
               /\ swept = SeqRange(deletedFiles)

\* C6 happens: a run that flushed new chunks and swept a deleted file is killed
\* before saveFileHashes; the artifacts of the earlier run are untouched.
C6_Witness ==
  /\ pc = "killed" /\ stoppedAt = "saveHashes"
  /\ store # startStore
  /\ \E f \in DOMAIN loadFileHashes : Disk[f] = Absent /\ ItemsOf(store, f) = {}
  /\ \E f \in Readable(Disk) : f \notin DOMAIN loadFileHashes /\ ItemsOf(store, f) # {}
  /\ Len(manifestFile) = 1

\* C7: the hash store a completed run wrote holds the new hash of a to-process
\* file only if all of the file's chunks were embedded and written in that run.
C7_HashOnlyIfFullyIndexed ==
  Persisted
    => \A k \in 1..Len(filesToProcess) :
         LET f == filesToProcess[k].file
             content == filesToProcess[k].content
         IN (f \in DOMAIN loadFileHashes
               /\ loadFileHashes[f] = calculateFileHash(content))
              => ExpectedItems(f, content) \subseteq written

ChunkMapEntries == IF Len(chunkMapFile) = 0 THEN <<>> ELSE chunkMapFile[1]

\* C8: after a completed run the chunk map has exactly one entry (id, file, start,
\* end) for every item of the vector store (stated for histories without a kill
\* or a failed call).
C8_ChunkMapMatchesStore ==
  (pc = "done" /\ NoFault)
    => /\ {<<e.chunk_id, e.file, e.start, e.end>> : e \in SeqRange(ChunkMapEntries)}
            = {<<it.id, it.repo_path, it.start_line, it.end_line>> : it \in store}
       /\ Len(ChunkMapEntries) = Cardinality(store)

\* C9: when the tree differs from that of the last completed run only in one
\* indexed file being deleted, the run removes that file's items and nothing
\* else, and removes its key from the hash store (stated for histories without a
\* kill or a failed call).
C9_DeleteRemovesOnlyThatFile ==
  (pc = "done" /\ Len(lastDoneTree) = 1 /\ NoFault)
    => \A f \in UserFiles :
         (/\ lastDoneTree[1][f].kind = "text"
          /\ tree = [lastDoneTree[1] EXCEPT ![f] = Absent])
           => /\ store = startStore \ ItemsOf(startStore, f)
              /\ Cardinality(store)
                   = Cardinality(startStore) - Cardinality(ItemsOf(startStore, f))
              /\ f \notin DOMAIN loadFileHashes

\* C10: with --force every file that is present and read is to be processed, and
\* with or without --force a completed run sweeps exactly the keys of the previous
\* hash store that are absent from the file set the run discovered (stated for
\* histories without a kill or a failed call).
C10_ForceAndSweep ==
  (pc = "done" /\ NoFault)
    => /\ FORCE_REINDEX => DOMAIN currentHashes \subseteq ToProcessFiles
       /\ swept = {f \in DOMAIN previousHashes : f \notin SeqRange(files)}

\* skippedCount = files.length - filesToProcess.length: the discovered files that
\* are not to be processed
UnchangedFiles == SeqRange(files) \ ToProcessFiles

\* C11: in every run the sets unchanged, to-process and deleted are pairwise
\* disjoint, every discovered file is in exactly one of unchanged and to-process,
\* and the deleted files are exactly the keys of the previous hash store that are
\* absent from the discovered file set.
C11_ClassificationPartitions ==
  pc \in Running \cup {"done"}
    => /\ UnchangedFiles \cap ToProcessFiles = {}
       /\ UnchangedFiles \cap SeqRange(deletedFiles) = {}
       /\ ToProcessFiles \cap SeqRange(deletedFiles) = {}
       /\ UnchangedFiles \cup ToProcessFiles = SeqRange(files)
       /\ SeqRange(deletedFiles)
            = {f \in DOMAIN previousHashes : f \notin SeqRange(files)}

\* C12: the index a root opens holds exactly the items that root's own runs wrote
\* and did not remove: no run on another root (one with the same folder name, or
\* with a folder name that differs only outside [a-zA-Z0-9_-]) added, overwrote
\* or removed any.
C12_RootsDoNotCollide ==
  \A root \in Roots : IndexOfRoot(root) = mine[root]

ResultFiles == SeqRange(results)

\* The score a reported file carries.
FileScore(r) == IF "bestScore" \in DOMAIN r THEN r.bestScore ELSE r.score

Reported == qpc = "done" /\ outcome = "results"

\* C13: the line range expandToParent reports for a snippet is the (start_line,
\* end_line) chunkFile recorded for the chunk of that hit (stated for a chunk
\* map that parses).
C13_LineRangeRoundTrip ==
  (Reported /\ qArgs.script = "cloud" /\ ~qMapGarbled)
    => \A r \in ResultFiles : \A j \in 1..Len(r.snippets) :
         \A it \in SeqRange(qIndex[1]) :
           <<it.id>> = r.snippets[j].of
             => /\ r.snippets[j].start = it.start_line
                /\ r.snippets[j]["end"] = it.end_line

\* C14: with an area filter, every hit of the merged result and every reported
\* file has exactly that area.
C14_AreaFilterExact ==
  (qpc \in {"searched", "done"} /\ qArgs.area # <<>>)
    => /\ \A h \in SeqRange(hits) : h._source.area = qArgs.area[1]
       /\ \A r \in ResultFiles : r.area = qArgs.area[1]

\* C15: with a minimum score X, no reported file has a score below X.
C15_MinScoreRespected ==
  (Reported /\ qArgs.minScore # <<>>)
    => \A r \in ResultFiles : FileScore(r) >= qArgs.minScore[1]

\* The scores of the hits whose parent is the file of a result.
HitScoresOf(r) ==
  LET own == HitsOf(hits, r.path) IN [j \in 1..Len(own) |-> own[j]._score]

\* C16: for every file of a query result, the file's score is the maximum of the
\* scores of the hit chunks whose parent is that file.
C16_FileScoreIsMax ==
  Reported =>
    \A r \in ResultFiles :
      /\ \E j \in 1..Len(HitScoresOf(r)) : FileScore(r) = HitScoresOf(r)[j]
      /\ \A j \in 1..Len(HitScoresOf(r)) : FileScore(r) >= HitScoresOf(r)[j]

\* The snippets of a result file.
SnippetsOf(r) == IF "chunks" \in DOMAIN r THEN r.chunks ELSE r.snippets

\* C17: each file of a query result carries at most three snippets, and their
\* scores are the three highest scores of the file's hit chunks.
C17_TopThreeSnippets ==
  Reported =>
    \A r \in ResultFiles :
      LET scores == [j \in 1..Len(SnippetsOf(r)) |-> SnippetsOf(r)[j].score]
      IN /\ Len(scores) <= 3
         /\ SortDesc(scores, LAMBDA x : x)
              = Slice(SortDesc(HitScoresOf(r), LAMBDA x : x), 3)

\* The files the hits belong to that the result does not return.
LeftOut ==
  {h._source.parent_id : h \in SeqRange(hits)} \ {r.path : r \in ResultFiles}

\* The score the program gives the file of some hits: groupResultsByFile the
\* first hit's, expandToParent the highest.
ScoreOfFile(parent) ==
  IF qArgs.script = "local" THEN HitsOf(hits, parent)[1]._score
  ELSE MaxScore(HitsOf(hits, parent))

\* C18: the files a query returns are in descending order of file score, are at
\* most k, and no file left out by the truncation has a higher score than a
\* returned file.
C18_SortedAndTruncated ==
  Reported =>
    /\ \A x, y \in 1..Len(results) :
         x < y => FileScore(results[x]) >= FileScore(results[y])
    /\ Len(results) <= qArgs.k
    /\ \A parent \in LeftOut : \A r \in ResultFiles :
         (qArgs.minScore = <<>> \/ ScoreOfFile(parent) >= qArgs.minScore[1])
           => ScoreOfFile(parent) <= FileScore(r)

C18_Witness ==
  /\ Reported
  /\ Len(results) = 2 /\ qArgs.k = 2
  /\ FileScore(results[1]) > FileScore(results[2])
  /\ LeftOut # {}
  /\ qArgs.minScore = <<>>

\* C19: when the embedder is unavailable for the query text (access denied or
\* unsupported), a query on an index that holds chunks does not fail: it ends
\* with results, or with none, and its hits are the chunks that contain the
\* query text, ranked by their text score.
C19_EmbedderFallback ==
  (/\ qpc = "done"
   /\ qArgs.embedder \in {"denied", "unsupported"}
   /\ qArgs.q # <<>>
   /\ qIndex # <<>> /\ qIndex[1] # <<>>)
  => /\ outcome \in {"results", "noResults"}
     /\ \A j \in 1..Len(hits) : Includes(hits[j]._source.content, qArgs.q)
     /\ \A x, y \in 1..Len(hits) :
          x < y => calculateTextScore(hits[x]._source.content, qArgs.q)
                     >= calculateTextScore(hits[y]._source.content, qArgs.q)

\* C20: a query on a target that has no index never creates the index.
C20_QueryCreatesNoIndex ==
  [][qIndex = <<>> => qIndex' = <<>>]_<<vars, sideVars>>

\* C21: a query whose text is missing or is the empty string is rejected as a
\* usage error before the embedder or the vector store is initialized (the
\* start-up of lib/query.js, after which qpc is "ready") or invoked (the search,
\* after which qpc is "searched").
C21_EmptyQueryRejectedFirst ==
  (~qArgs.given \/ qArgs.q = <<>>)
  => /\ qpc \in {"idle", "start", "done"}
     /\ qpc = "done" => outcome = "usage"

\* The content processFiles read for a file it processes.
ContentRead(f) ==
  filesToProcess[CHOOSE k \in 1..Len(filesToProcess) : filesToProcess[k].file = f].content

\* The to-process files for which embed threw in the run: embed was called for
\* them and the chunk map lacks one of their chunks.
FailedFiles ==
  {f \in ToProcessFiles \cap embedded :
     \E c \in SeqRange(chunkFile(f, ContentRead(f))) :
       \A k \in 1..Len(chunkMap) : chunkMap[k].chunk_id # c.id}

\* The file loop and the final flush of the run are over.
PastFlush == pc \in {"sweep", "saveHashes", "saveChunkMap", "saveManifest"} \/ Persisted

\* C22: a file whose read or embedding fails does not abort the run. The step
\* in which embed throws leaves the run running; a file that cannot be read is
\* left out and the others are classified; and once the final flush is over,
\* every to-process file other than the failed ones has been chunked and has
\* its chunks in the vector store.
C22_FileFailureDoesNotAbort ==
  /\ [][(pc = "chunk" /\ fails' > fails) => pc' \in Running]_vars
  /\ [](PastFlush =>
          /\ (ToProcessFiles \ FailedFiles) \subseteq chunked
          /\ \A f \in ToProcessFiles \ FailedFiles :
               ExpectedItems(f, ContentRead(f)) \subseteq store)

\* C22 happens: a run completed in which embed threw for one file of the user
\* and the other was processed and has its items in the store.
C22_Witness ==
  /\ Persisted
  /\ \E f, g \in UserFiles :
       /\ f \in FailedFiles
       /\ g \in ToProcessFiles \ FailedFiles
       /\ ExpectedItems(g, ContentRead(g)) # {}
       /\ ExpectedItems(g, ContentRead(g)) \subseteq store

\* The items of an index of the data directory, none if it does not exist.
ItemsIn(dp, indexName) == IF dp[indexName] = <<>> THEN {} ELSE dp[indexName][1]

\* C23: an index run on a target directory that does not exist exits with a
\* non-zero status and applies nothing: no vector index is created or changed
\* and no hash store, chunk map or manifest is written.
C23_MissingTargetAppliesNothing ==
  lastCmd.kind = "missing"
  => /\ lastCmd.exit # 0
     /\ dataPath = lastCmd.before.dataPath
     /\ rootHashes = lastCmd.before.rootHashes
     /\ rootMeta = lastCmd.before.rootMeta

\* C24: an index run on a root whose hash store exists and does not parse exits
\* with a failure, and no item of any index is removed or added and neither the
\* hash store nor the chunk map nor the manifest is rewritten.
C24_MalformedHashesAbort ==
  lastCmd.kind = "garbled"
  => /\ lastCmd.exit # 0
     /\ \A n \in IndexNames : ItemsIn(dataPath, n) = ItemsIn(lastCmd.before.dataPath, n)
     /\ rootHashes = lastCmd.before.rootHashes
     /\ garbled = lastCmd.before.garbled
     /\ rootMeta = lastCmd.before.rootMeta

\* C24 happens: the run was on a root whose index holds items.
C24_Witness ==
  /\ lastCmd.kind = "garbled"
  /\ lastCmd.root \in lastCmd.before.garbled
  /\ IndexOfRoot(lastCmd.root) # {}
  /\ rootMeta[lastCmd.root] # <<>>

C26_ShortFileOneChunk ==
  \A x \in 1..Len(cfCalls) :
    NumLines(cfCalls[x].content.lines) < maxLinesPerChunk(cfCalls[x].filePath)
      => /\ Len(cfCalls[x].chunks) <= 1
         /\ Len(cfCalls[x].chunks) = 0
              => TrimmedLength(cfCalls[x].content.lines) <= MinChunkChars

\* The files of the index with a chunk that contains the query text, and those
\* none of whose chunks contains a word of it.
IndexedFiles == {it.repo_path : it \in SeqRange(qIndex[1])}
ChunksOfFile(f) == {it \in SeqRange(qIndex[1]) : it.repo_path = f}
PhraseFiles ==
  {f \in IndexedFiles : \E it \in ChunksOfFile(f) : Includes(it.content, qArgs.q)}
NoOverlapFiles ==
  {f \in IndexedFiles :
     \A it \in ChunksOfFile(f) : \A j \in 1..Len(qArgs.q) :
       ~Includes(it.content, <<qArgs.q[j]>>)}

\* The scores of the query are lexical only: tools/ai_index/query.js searches by
\* text when the embedding was denied; in lib/query.js the vector part of every
\* score is 0 when every chunk of the index is orthogonal to the query.
LexicalOnly ==
  \/ qArgs.script = "cloud" /\ qArgs.embedder = "denied"
  \/ /\ qArgs.script = "local" /\ qArgs.embedder = "up"
     /\ \A it \in SeqRange(qIndex[1]) : Cosine70(it.vector) = 0

\* The place of a file in the result, 0 if it is not returned.
PlaceOf(f) ==
  LET at == {j \in 1..Len(results) : results[j].path = f}
  IN IF at = {} THEN 0 ELSE CHOOSE j \in at : TRUE

C28_OldChunksRemovedFirst ==
  /\ \A f \in chunked : ItemsOf(store, f) \subseteq written
  /\ PastFlush =>
       \A f \in ToProcessFiles :
         ItemsOf(store, f) \subseteq ExpectedItems(f, ContentRead(f))

\* C29: a file for which embed threw is skipped as a whole: once the final flush
\* is over, none of its chunks has been written to the vector store in the run
\* and the chunk map of the run has no entry for it.
C29_FailedFileSkippedWhole ==
  PastFlush =>
    \A f \in FailedFiles :
      /\ ItemsOf(written, f) = {}
      /\ \A k \in 1..Len(chunkMap) : chunkMap[k].file # f

\* C30: at every point of a run at most MAX_BULK_SIZE chunks are staged, and
\* every call of addDocuments carries at most MAX_BULK_SIZE chunks (a call that
\* succeeds adds the number it carried to totalChunks), also after a flush has
\* failed.
C30_BatchNeverExceedsBulkSize ==
  /\ [](Len(pendingDocuments) <= MAX_BULK_SIZE)
  /\ [][(pc \in Running) => (totalChunks' - totalChunks <= MAX_BULK_SIZE)]_vars

\* The lines of a call's file that lie in the range of a returned chunk, and the
\* starts of the windows the loop of chunkFile cuts from the file.
CoveredLines(call) ==
  UNION {c.start_line..(c.end_line - 1) : c \in SeqRange(call.chunks)}
LinesOf(call) == 0..(NumLines(call.content.lines) - 1)
WindowStarts(call) ==
  LET step == maxLinesPerChunk(call.filePath) - overlap
  IN {step * m : m \in 0..((NumLines(call.content.lines) - 1) \div step)}
StartsIncrease(call) ==
  \A x \in 1..(Len(call.chunks) - 1) :
    call.chunks[x].start_line < call.chunks[x + 1].start_line

Merged == hybridSearch(qIndex[1], qArgs.q, qArgs.k * 2, [area |-> qArgs.area])
VectorBucket == search(qIndex[1], qArgs.k * 4, [area |-> qArgs.area], 0)
TextBucket ==
  LET items == qIndex[1]
      t(p) == calculateTextScore(items[p].content, qArgs.q)
      matching == {p \in 1..Len(items) : Includes(items[p].content, qArgs.q)}
      before(p) == {o \in matching : t(o) > t(p) \/ (t(o) = t(p) /\ o < p)}
  IN {items[p].id : p \in {o \in matching : Cardinality(before(o)) < qArgs.k * 4}}
LocalSearched == qpc = "searched" /\ qArgs.script = "local"

\* C32: in the result of hybridSearch each chunk id appears at most once; the
\* final score of a chunk is vectorWeight times its vector score if it is only
\* among the vector results, textWeight times its text score if it is only in
\* the text bucket, and the sum of the two if it is in both; and the default
\* vectorWeight is greater than the default textWeight.
C32_MergedScores ==
  LocalSearched =>
    /\ vectorWeight10 > textWeight10
    /\ Cardinality({r.id : r \in SeqRange(Merged)}) = Len(Merged)
    /\ \A r \in SeqRange(Merged) :
         LET inVector == {v \in SeqRange(VectorBucket) : v.id = r.id}
             weightedText ==
               (calculateTextScore(r.metadata.content, qArgs.q) * textWeight10) \div 10
             weightedVector ==
               ((CHOOSE v \in inVector : TRUE).score * vectorWeight10) \div 10
         IN /\ inVector # {} \/ r.id \in TextBucket
            /\ (inVector # {} /\ r.id \notin TextBucket) => r.finalScore = weightedVector
            /\ (inVector = {} /\ r.id \in TextBucket) => r.finalScore = weightedText
            /\ (inVector # {} /\ r.id \in TextBucket)
                 => r.finalScore = weightedVector + weightedText

\* C32 happens: hybridSearch returned a chunk that is in both buckets, one that
\* is only in the text bucket and one that is only among the vector results.
C32_Witness ==
  /\ LocalSearched
  /\ \E r \in SeqRange(Merged) :
       /\ r.id \in TextBucket
       /\ \E v \in SeqRange(VectorBucket) : v.id = r.id
  /\ \E r \in SeqRange(Merged) :
       /\ r.id \in TextBucket
       /\ \A v \in SeqRange(VectorBucket) : v.id # r.id
  /\ \E r \in SeqRange(Merged) :
       /\ r.id \notin TextBucket
       /\ \E v \in SeqRange(VectorBucket) : v.id = r.id

\* C33: a query on a target whose chunk map exists and cannot be parsed aborts
\* with a diagnostic: it does not end with results.
C33_GarbledChunkMapAborts ==
  (qMapGarbled /\ qpc = "done") => outcome \in {"failed", "usage", "crashed"}

\* C34: a run without --force in which no file is to process returns at once:
\* embed is called for no file, and the vector store, the hash store, the
\* chunk map and the manifest are as they were when the run started.
C34_NothingToProcessChangesNothing ==
  (pc = "done" /\ ~FORCE_REINDEX /\ Len(filesToProcess) = 0 /\ ops > 0)
    => /\ embedded = {}
       /\ store = startStore
       /\ Artifacts = startFiles

\* C34 happens: a run without --force found files, none of them to process,
\* and returned, on a target whose vector store holds items.
C34_Witness ==
  /\ pc = "done" /\ ~FORCE_REINDEX /\ Len(filesToProcess) = 0
  /\ Len(files) > 0
  /\ store # {}

\* C35: the files a run writes under the target directory
\* (ai_index/file_hashes.json, ai_index/manifest.json and
\* ai_index/search/chunkmap.jsonl) are in no run's list of discovered files,
\* in no run's hashes and in no run's list of files to process.
C35_ArtifactsNotDiscovered ==
  /\ \A k \in 1..Len(files) : files[k] \in UserFiles
  /\ DOMAIN currentHashes \subseteq UserFiles
  /\ \A k \in 1..Len(filesToProcess) : filesToProcess[k].file \in UserFiles

\* What a run over the files the last run read leaves in an empty vector store.
FreshIndex ==
  UNION {ExpectedItems(filesToProcess[k].file, filesToProcess[k].content) :
           k \in 1..Len(filesToProcess)}

\* C36: a completed run with --force leaves the vector store with exactly the
\* items that indexing the tree it read into an empty store yields, whatever
\* runs, kills and edits came before (stated for histories without a failed
\* call).
C36_ForceRunEqualsFreshIndex ==
  (pc = "done" /\ FORCE_REINDEX /\ fails = 0) => store = FreshIndex

\* The run is at or past the first of the three writes that end it.
AtPersist ==
  pc \in {"saveHashes", "saveChunkMap", "saveManifest"} \/ Persisted

\* C37: once a run is at the persist step, every chunk it staged (each has its
\* entry in the run's chunk map) has been written to the vector store and is
\* in it, no staged document is unwritten, the count the manifest takes equals
\* the number of chunks the run wrote, and so does total_chunks of the manifest
\* the run writes.
C37_NothingPendingAtPersist ==
  AtPersist
    => /\ \A k \in 1..Len(chunkMap) :
            \E it \in written \cap store : it.id = chunkMap[k].chunk_id
       /\ {Item(doc) : doc \in SeqRange(pendingDocuments)} \subseteq written
       /\ totalChunks = Cardinality(written)
       /\ Persisted => manifestFile[1].total_chunks = Cardinality(written)

\* C37 happens: a run completed that staged the chunks of two files, one of
\* them with two chunks, and its manifest counts them all.
C37_Witness ==
  /\ Persisted
  /\ Cardinality({chunkMap[k].file : k \in 1..Len(chunkMap)}) >= 2
  /\ Len(chunkMap) >= 3
  /\ manifestFile[1].total_chunks = Len(chunkMap)

BothDone == \A p \in Runs : pRun[p].pc = "done"

\* C38: when two runs of processFiles on one target and one unchanging tree,
\* the second started while the first was running and the two interleaved in
\* any order between their calls on the vector store, have both
\* completed, the vector store holds exactly the items one run alone leaves in
\* it (with or without --force), and no two items with the same id.
C38_TwoRunsLikeOne ==
  (BothDone /\ pOverlap)
    => /\ \E force \in BOOLEAN : pShared.store = Solo(pTree, pFirst, force, 1).store
       /\ Cardinality({it.id : it \in pShared.store}) = Cardinality(pShared.store)

====
